---- MODULE Spec2Model ----
(***************************************************************************)
(* State-machine model of AgenticCrawler (src/src/agentic_crawler.py).     *)
(*                                                                         *)
(* One crawler object runs adaptive_crawl calls one after the other.  A    *)
(* run is cut at its await points: the intent oracle call, the strategy    *)
(* oracle call, the primary fetch, the follow-up oracle call, each         *)
(* follow-up fetch, and the learning write.  The oracle, the fetch engine  *)
(* and the persistent store are collaborators whose answers are chosen     *)
(* nondeterministically from small sets.                                   *)
(*                                                                         *)
(* Python values: a dict {} and a list [] are the empty function <<>>; a   *)
(* JSON object decoded from an oracle reply is a record with a field       *)
(* "keys" naming the keys that are present.  Float thresholds of the       *)
(* catalog are scaled by 100.                                              *)
(***************************************************************************)
EXTENDS Integers, Sequences, FiniteSets, TLC

VARIABLES
    pc,               \* position of the current adaptive_crawl call
    runs,             \* number of adaptive_crawl calls started
    url,              \* argument url of the current call
    user_query,       \* argument user_query of the current call
    oracle_reply,     \* last reply of the reasoning oracle
    crawl_context,    \* local crawl_context of adaptive_crawl
    strategy,         \* local strategy of adaptive_crawl
    strategies,       \* self.strategies, the catalog
    results,          \* local results of _execute_with_monitoring
    follow_up_links,  \* local follow_up_links of _execute_with_monitoring
    link_index,       \* position of the follow-up loop in follow_up_links[:3]
    fetch_log,        \* calls of crawler.arun made by the current call
    store_log,        \* outcomes of the store inserts made by the current call
    success_history,  \* self.success_history
    clock,            \* number of learning records built so far (timestamps)
    returned,         \* value adaptive_crawl returned to its caller
    oracle_log,       \* call sites of the oracle calls made by the current call
    domain,           \* argument domain of the current proactive_discovery call
    interests,        \* argument interests of the current proactive_discovery call
    suggestions,      \* value proactive_discovery returned to its caller
    tasks,            \* locals of the adaptive_crawl calls running concurrently
    task_results,     \* the results dict of each concurrent call
    learned_patterns, \* self.learned_patterns
    store_load,       \* what the store answered to the select of __init__
    sent_patterns,    \* learned patterns in the prompt of the current call
    deal_pc,          \* position of the current find_deals_intelligent call
    site_queue,       \* the sites find_deals_intelligent loops over
    site_index,       \* position of that loop
    deals,            \* local deals of find_deals_intelligent
    crawl_log,        \* what _crawl_site_for_deals returned, site by site
    found_deals,      \* value find_deals_intelligent returned to its caller
    entry,            \* the function of the deal client that was called
    target_sites,     \* argument target_sites of find_deals_intelligent
    session,          \* the aiohttp session of the client
    request_log,      \* requests the client has sent, with their responses
    found_sites,      \* value discover_trending_deals returned to its caller
    handler,          \* the transport handler serving the current request
    doc_log,          \* calls of add_documents_to_supabase by the handler
    handler_result    \* what the handler returned to the client

vars == <<pc, runs, url, user_query, oracle_reply, crawl_context, strategy,
          strategies, results, follow_up_links, link_index, fetch_log,
          store_log, success_history, clock, returned, oracle_log,
          domain, interests, suggestions, tasks, task_results,
          learned_patterns, store_load, sent_patterns,
          deal_pc, site_queue, site_index, deals, crawl_log, found_deals,
          entry, target_sites, session, request_log, found_sites,
          handler, doc_log, handler_result>>

discovery_vars == <<domain, interests, suggestions>>

task_vars == <<tasks, task_results>>

pattern_vars == <<learned_patterns, store_load>>

deal_vars == <<deal_pc, site_queue, site_index, deals, crawl_log, found_deals,
               entry, target_sites, session, request_log, found_sites>>

transport_vars == <<handler, doc_log, handler_result>>

call_vars == <<pc, runs, url, user_query, oracle_reply, crawl_context, strategy, results,
               follow_up_links, link_index, fetch_log, store_log, returned, oracle_log>>

(***************************************************************************)
(* Bounds of the model.                                                    *)
(***************************************************************************)
MaxRuns == 2
MaxLinks == 4
MaxRecords == 102
MaxSuggestions == 2
NumTasks == 2
MaxStartupRuns == 1
MaxSites == 2
MaxSiteDeals == 2

(***************************************************************************)
(* Program constants.                                                      *)
(***************************************************************************)
FollowLimit == 3
HistoryLimit == 100
FollowDepth == 1
DiscoverLimit == 5
StructuredConfidence == 80
TextConfidence == 60

(***************************************************************************)
(* Small helpers.                                                          *)
(***************************************************************************)
Min(a, b) == IF a < b THEN a ELSE b

SeqUpTo(S, n) == UNION {[1..k -> S] : k \in 0..n}

\* dict.get(key, default) on a decoded JSON object
Get(obj, key, default) == IF key \in obj.keys THEN obj[key] ELSE default

(***************************************************************************)
(* Inputs of adaptive_crawl.                                               *)
(***************************************************************************)
TargetUrls == {"https://example.com/deals"}
InvalidUrls == {""}
Queries == {"find deals"}
FollowUrls == {"https://example.com/a", "https://example.com/b"}
Domains == {"", "example.com"}
InterestLists == {<<>>, <<"deals">>}

\* urlparse(url).netloc
Netloc(u) ==
    CASE u = "https://example.com/deals" -> "example.com"
      [] u = "https://example.com/a" -> "example.com"
      [] u = "https://example.com/b" -> "example.com"
      [] OTHER -> ""

(***************************************************************************)
(* The strategy catalog.                                                   *)
(***************************************************************************)
StrategyKeys == {"deep_research", "quick_scan", "discovery_mode"}

LoadBaseStrategies ==
    [k \in StrategyKeys |->
        CASE k = "deep_research" ->
               [name |-> "Deep Research",
                description |-> "Thorough multi-page analysis for comprehensive understanding",
                target_patterns |-> <<"article", "blog", "research", "study", "analysis">>,
                depth_limit |-> 3,
                follow_links |-> TRUE,
                extract_patterns |-> <<"main content", "citations", "references", "related links">>,
                success_metrics |-> [content_depth |-> 80, relevance_score |-> 70],
                adaptation_rules |-> <<"increase_depth_if_shallow", "follow_citations">>]
          [] k = "quick_scan" ->
               [name |-> "Quick Scanner",
                description |-> "Fast overview crawl for key information extraction",
                target_patterns |-> <<"summary", "overview", "key points", "highlights">>,
                depth_limit |-> 1,
                follow_links |-> FALSE,
                extract_patterns |-> <<"headings", "bullet points", "key metrics">>,
                success_metrics |-> [speed |-> 90, coverage |-> 60],
                adaptation_rules |-> <<"prioritize_structured_data">>]
          [] k = "discovery_mode" ->
               [name |-> "Discovery Explorer",
                description |-> "Proactive discovery of related opportunities and content",
                target_patterns |-> <<"sitemap", "directory", "index", "catalog">>,
                depth_limit |-> 2,
                follow_links |-> TRUE,
                extract_patterns |-> <<"navigation", "categories", "related topics">>,
                success_metrics |-> [discovery_rate |-> 80, novelty |-> 70],
                adaptation_rules |-> <<"expand_to_related_domains", "follow_category_links">>]]

(***************************************************************************)
(* Replies of the reasoning oracle.  kind "error": the call raised or      *)
(* timed out; "text": the reply is not JSON; "array": the reply is JSON    *)
(* but not an object; "object": a decoded JSON object.                     *)
(***************************************************************************)
NoReply == [kind |-> "none"]

FailedReplies == {[kind |-> "error"], [kind |-> "text"], [kind |-> "array"]}

IntentReplies ==
    FailedReplies \cup
    {[kind |-> "object", keys |-> {}],
     [kind |-> "object",
      keys |-> {"primary_intent", "domain_insights", "recommended_patterns", "avoid_patterns"},
      primary_intent |-> "monitoring",
      domain_insights |-> [site |-> "shop"],
      recommended_patterns |-> <<"deals">>,
      avoid_patterns |-> <<"ads">>],
     [kind |-> "object", keys |-> {"primary_intent"}, primary_intent |-> "shopping"]}

\* decoded JSON values that are not objects: null, a string, a number, an array
JsonNull == [type |-> "null"]
JsonString == [type |-> "string"]
JsonNumber == [type |-> "number"]
JsonArray(items) == [type |-> "array", items |-> items]

ModKeys == {"depth_limit", "additional_patterns", "follow_links"}
DepthValues == {-1, 0, 2}

ModObj(ks, d, f) ==
    [keys |-> ks,
     depth_limit |-> IF "depth_limit" \in ks THEN d ELSE 0,
     additional_patterns |-> IF "additional_patterns" \in ks
                             THEN JsonArray(<<"prices">>) ELSE JsonArray(<<>>),
     follow_links |-> IF "follow_links" \in ks THEN f ELSE FALSE]

Modifications == {ModObj(ks, d, f) : ks \in SUBSET ModKeys, d \in DepthValues, f \in BOOLEAN}

EmptyMods == ModObj({}, 0, FALSE)

\* modifications that also carry a key _modify_strategy does not know
ModObjExtra(ks, d, f) ==
    [keys |-> ks \cup {"name"},
     depth_limit |-> IF "depth_limit" \in ks THEN d ELSE 0,
     additional_patterns |-> IF "additional_patterns" \in ks
                             THEN JsonArray(<<"prices">>) ELSE JsonArray(<<>>),
     follow_links |-> IF "follow_links" \in ks THEN f ELSE FALSE,
     name |-> "Turbo"]

ExtraModifications ==
    {ModObjExtra(ks, d, f) : ks \in SUBSET ModKeys, d \in DepthValues, f \in BOOLEAN}

\* modifications whose additional_patterns cannot be iterated by extend()
BadPatternModifications ==
    {[ModObj(ks \cup {"additional_patterns"}, d, f) EXCEPT !.additional_patterns = v] :
        ks \in SUBSET ModKeys, d \in DepthValues, f \in BOOLEAN, v \in {JsonNull, JsonNumber}}

\* modifications that are no JSON object
NonMappingModifications == {JsonNull, JsonString, JsonNumber}

\* a dict, as opposed to another decoded JSON value
IsMapping(v) == "keys" \in DOMAIN v

\* `if modifications:` is false for {} and null, true for a non-empty dict, a
\* non-empty string and a non-zero number
Truthy(modifications) ==
    IF IsMapping(modifications) THEN modifications.keys # {}
    ELSE modifications.type \in {"string", "number"}

SelectedNames == StrategyKeys \cup {"turbo"}

StrategyReplies ==
    FailedReplies \cup
    {[kind |-> "object", keys |-> {"modifications"}, modifications |-> m] : m \in Modifications} \cup
    {[kind |-> "object", keys |-> {"selected_strategy"}, selected_strategy |-> n] : n \in SelectedNames} \cup
    {[kind |-> "object", keys |-> {"selected_strategy", "modifications"},
      selected_strategy |-> n, modifications |-> m] : n \in SelectedNames, m \in Modifications}

UrlItems == {[keys |-> {"url", "reasoning"}, url |-> u] : u \in FollowUrls}

\* a recommended item without a url
NoUrlItem == [keys |-> {"reasoning"}]

\* the decisions an oracle stub hands to select_strategy called on its own
SelectReplies ==
    StrategyReplies \cup
    {[kind |-> "object", keys |-> {"selected_strategy", "modifications"},
      selected_strategy |-> n, modifications |-> m] :
        n \in StrategyKeys,
        m \in ExtraModifications \cup BadPatternModifications \cup NonMappingModifications} \cup
    {[kind |-> "object", keys |-> {"modifications"}, modifications |-> m] :
        m \in BadPatternModifications \cup NonMappingModifications}

LinkReplies ==
    FailedReplies \cup
    {[kind |-> "object", keys |-> {}]} \cup
    {[kind |-> "object", keys |-> {"recommended_links"}, recommended_links |-> s] :
        s \in SeqUpTo(UrlItems, MaxLinks)} \cup
    {[kind |-> "object", keys |-> {"recommended_links"},
      recommended_links |-> Append(s, NoUrlItem)] : s \in SeqUpTo(UrlItems, 1)}

\* the key suggested_urls holds null, a string, or an array whose items are
\* {url, reasoning} objects or objects without a url
SuggestionItems ==
    {[keys |-> {"url", "reasoning"}, url |-> u] : u \in FollowUrls} \cup {NoUrlItem}

SuggestedValues ==
    {JsonNull, JsonString} \cup {JsonArray(s) : s \in SeqUpTo(SuggestionItems, MaxSuggestions)}

DiscoveryReplies ==
    FailedReplies \cup
    {[kind |-> "object", keys |-> {}]} \cup
    {[kind |-> "object", keys |-> {"suggested_urls"}, suggested_urls |-> v] :
        v \in SuggestedValues}

FetchOutcomes == {"ok", "unsuccessful", "raises"}
StoreOutcomes == {"ok", "raises"}

(***************************************************************************)
(* analyze_intent                                                          *)
(***************************************************************************)
NoContext == [user_intent |-> "none"]

FallbackContext ==
    [user_intent |-> "research",
     domain_knowledge |-> <<>>,
     previous_attempts |-> <<>>,
     success_patterns |-> <<>>,
     failure_patterns |-> <<>>]

\* analyze_intent whose fallback keeps no usable intent
AnalyzeIntentNoIntent(reply) ==
    IF reply.kind = "object"
    THEN [user_intent |-> Get(reply, "primary_intent", "research"),
          domain_knowledge |-> Get(reply, "domain_insights", <<>>),
          previous_attempts |-> <<>>,
          success_patterns |-> Get(reply, "recommended_patterns", <<>>),
          failure_patterns |-> Get(reply, "avoid_patterns", <<>>)]
    ELSE [FallbackContext EXCEPT !.user_intent = ""]

\* analyze_intent that hands the recorded crawls to the context
AnalyzeIntentWithHistory(reply) ==
    IF reply.kind = "object"
    THEN [user_intent |-> Get(reply, "primary_intent", "research"),
          domain_knowledge |-> Get(reply, "domain_insights", <<>>),
          previous_attempts |-> success_history,
          success_patterns |-> Get(reply, "recommended_patterns", <<>>),
          failure_patterns |-> Get(reply, "avoid_patterns", <<>>)]
    ELSE FallbackContext

\* the context analyze_intent returns for an oracle reply
AnalyzeIntent(reply) ==
    IF reply.kind = "object"
    THEN [user_intent |-> Get(reply, "primary_intent", "research"),
          domain_knowledge |-> Get(reply, "domain_insights", <<>>),
          previous_attempts |-> <<>>,
          success_patterns |-> Get(reply, "recommended_patterns", <<>>),
          failure_patterns |-> Get(reply, "avoid_patterns", <<>>)]
    ELSE FallbackContext

(***************************************************************************)
(* _modify_strategy and select_strategy                                    *)
(***************************************************************************)
NoStrategy == [name |-> "none"]

\* CrawlStrategy(**asdict(strategy)) with the lists of the original shared
AsdictCopyShared(s) == [fields |-> s, fresh_lists |-> FALSE]

\* CrawlStrategy(**asdict(strategy)): asdict copies the lists recursively,
\* so the copy owns fresh list objects
AsdictCopy(s) == [fields |-> s, fresh_lists |-> TRUE]

\* `key in modifications` for a dict or a string that does not hold the key
Has(modifications, key) == IsMapping(modifications) /\ key \in modifications.keys

\* `"depth_limit" in modifications` raises for a number; extend() raises for
\* an argument that is not iterable
ModifyRaises(modifications) ==
    IF IsMapping(modifications)
    THEN /\ "additional_patterns" \in modifications.keys
         /\ modifications.additional_patterns.type # "array"
    ELSE modifications.type = "number"

\* the three ifs of _modify_strategy in their order, up to the one that raises
AppliedFields(s, modifications) ==
    [s EXCEPT
        !.depth_limit = IF Has(modifications, "depth_limit")
                        THEN modifications.depth_limit ELSE @,
        !.extract_patterns = IF Has(modifications, "additional_patterns")
                                /\ ~ModifyRaises(modifications)
                             THEN @ \o modifications.additional_patterns.items ELSE @,
        !.follow_links = IF Has(modifications, "follow_links")
                            /\ ~ModifyRaises(modifications)
                         THEN modifications.follow_links ELSE @]

\* modifications written into the strategy passed in, without a copy
ModifyStrategyInPlace(s, modifications) ==
    [modified |-> AppliedFields(s, modifications),
     original |-> AppliedFields(s, modifications),
     raised |-> ModifyRaises(modifications)]

\* a copy that takes over every key of the modifications naming a field
ModifyStrategyAnyKey(s, modifications) ==
    [modified |-> [AppliedFields(s, modifications) EXCEPT
                      !.name = IF Has(modifications, "name") THEN modifications.name ELSE @],
     original |-> s,
     raised |-> ModifyRaises(modifications)]

\* The modified copy, the strategy passed in as it is after the call
\* (extend() on a list shared with the original would change the original),
\* and whether the call raised; modified is then the copy as far as it got.
ModifyStrategy(s, modifications) ==
    LET copy == AsdictCopy(s)
        extended == Has(modifications, "additional_patterns") /\ ~ModifyRaises(modifications)
    IN [modified |-> AppliedFields(copy.fields, modifications),
        original |-> IF extended /\ ~copy.fresh_lists
                     THEN [s EXCEPT !.extract_patterns =
                                        @ \o modifications.additional_patterns.items]
                     ELSE s,
        raised |-> ModifyRaises(modifications)]

\* select_strategy whose fallback keeps the modifications of the reply
SelectStrategyLenient(catalog, reply) ==
    IF reply.kind # "object"
    THEN [strategy |-> catalog["deep_research"], strategies |-> catalog]
    ELSE LET strategy_name == Get(reply, "selected_strategy", "deep_research")
             modifications == Get(reply, "modifications", EmptyMods)
             key == IF strategy_name \in DOMAIN catalog THEN strategy_name ELSE "deep_research"
         IN IF Truthy(modifications)
            THEN LET m == ModifyStrategy(catalog[key], modifications)
                     after == [catalog EXCEPT ![key] = m.original]
                 IN IF m.raised
                    THEN [strategy |-> after["deep_research"], strategies |-> after]
                    ELSE [strategy |-> m.modified, strategies |-> after]
            ELSE [strategy |-> catalog[key], strategies |-> catalog]

\* select_strategy that returns the copy as far as _modify_strategy got
SelectStrategyKeepsPartial(catalog, reply) ==
    IF reply.kind # "object"
    THEN [strategy |-> catalog["deep_research"], strategies |-> catalog]
    ELSE LET strategy_name == Get(reply, "selected_strategy", "deep_research")
             modifications == Get(reply, "modifications", EmptyMods)
         IN IF strategy_name \notin DOMAIN catalog
            THEN [strategy |-> catalog["deep_research"], strategies |-> catalog]
            ELSE IF Truthy(modifications)
                 THEN LET m == ModifyStrategy(catalog[strategy_name], modifications)
                      IN [strategy |-> m.modified,
                          strategies |-> [catalog EXCEPT ![strategy_name] = m.original]]
                 ELSE [strategy |-> catalog[strategy_name], strategies |-> catalog]

\* The strategy select_strategy returns, and the catalog after the call; an
\* exception of _modify_strategy is caught like any other of the try block
SelectStrategy(catalog, reply) ==
    IF reply.kind # "object"
    THEN [strategy |-> catalog["deep_research"], strategies |-> catalog]
    ELSE LET strategy_name == Get(reply, "selected_strategy", "deep_research")
             modifications == Get(reply, "modifications", EmptyMods)
         IN IF strategy_name \notin DOMAIN catalog
            THEN [strategy |-> catalog["deep_research"], strategies |-> catalog]
            ELSE IF Truthy(modifications)
                 THEN LET m == ModifyStrategy(catalog[strategy_name], modifications)
                          after == [catalog EXCEPT ![strategy_name] = m.original]
                      IN IF m.raised
                         THEN [strategy |-> after["deep_research"], strategies |-> after]
                         ELSE [strategy |-> m.modified, strategies |-> after]
                 ELSE [strategy |-> catalog[strategy_name], strategies |-> catalog]

(***************************************************************************)
(* _identify_follow_up_links and _execute_with_monitoring                  *)
(***************************************************************************)
EmptyResults ==
    [primary_content |-> <<>>,
     discovered_opportunities |-> <<>>,
     performance_metrics |-> <<>>,
     adaptation_log |-> <<>>]

NoResult == [primary_content |-> "none"]

PrimaryContent(u) == [url |-> u, content |-> <<"content", u>>, metadata |-> <<"metadata", u>>]

Opportunity(u) == [url |-> u, content |-> <<"content", u>>, relation_to_primary |-> "discovered_link"]

LogLine(u) == <<"Failed to crawl", u>>

RECURSIVE UrlsOf(_)
UrlsOf(items) ==
    IF items = <<>> THEN <<>>
    ELSE IF "url" \in Head(items).keys
         THEN <<Head(items).url>> \o UrlsOf(Tail(items))
         ELSE UrlsOf(Tail(items))

\* a comprehension that skips the items without a url
IdentifyFollowUpLinksSkip(reply) ==
    IF reply.kind # "object"
    THEN <<>>
    ELSE UrlsOf(Get(reply, "recommended_links", <<>>))

\* [item["url"] for item in link_analysis.get("recommended_links", [])]
IdentifyFollowUpLinks(reply) ==
    IF reply.kind # "object"
    THEN <<>>
    ELSE LET items == Get(reply, "recommended_links", <<>>)
         IN IF \E i \in 1..Len(items) : "url" \notin items[i].keys
            THEN <<>>
            ELSE [i \in 1..Len(items) |-> items[i].url]

\* the loop over every recommended link
SelectedLinksAll(links) == links

\* follow_up_links[-3:]
SelectedLinksTail(links) ==
    SubSeq(links, Len(links) - Min(FollowLimit, Len(links)) + 1, Len(links))

\* follow_up_links[:3]
SelectedLinks(links) == SubSeq(links, 1, Min(FollowLimit, Len(links)))

\* a guard that looks at the depth limit only
FollowsLinksDepthOnly(s) == s.depth_limit > FollowDepth

\* strategy.follow_links and strategy.depth_limit >= 1
FollowsLinksShallow(s) == s.follow_links /\ s.depth_limit >= FollowDepth

\* strategy.follow_links and strategy.depth_limit > 1
FollowsLinks(s) == s.follow_links /\ s.depth_limit > FollowDepth

\* a loop body that does not look at follow_result.success
FollowUpResultAnyOutcome(res, link_url, outcome) ==
    CASE outcome \in {"ok", "unsuccessful"} ->
           [res EXCEPT !.discovered_opportunities = Append(@, Opportunity(link_url))]
      [] OTHER ->
           [res EXCEPT !.adaptation_log = Append(@, LogLine(link_url))]

\* the body of the follow-up loop for one link
FollowUpResult(res, link_url, outcome) ==
    CASE outcome = "ok" ->
           [res EXCEPT !.discovered_opportunities = Append(@, Opportunity(link_url))]
      [] outcome = "raises" ->
           [res EXCEPT !.adaptation_log = Append(@, LogLine(link_url))]
      [] OTHER -> res

\* a loop whose last successful page has its own links selected and followed
AfterFollowUpReselect(outcome, i, n) ==
    IF i < n THEN "follow" ELSE IF outcome = "ok" THEN "identify" ELSE "learn"

\* a loop that a raising fetch leaves
AfterFollowUpAbort(outcome, i, n) ==
    IF outcome = "raises" \/ i >= n THEN "learn" ELSE "follow"

\* where the loop goes after the fetch of link i of n
AfterFollowUp(outcome, i, n) == IF i < n THEN "follow" ELSE "learn"

(***************************************************************************)
(* _learn_from_crawl                                                       *)
(***************************************************************************)
\* a record built before the crawl has produced its result
LearningRecordEarly(t, u, q, res) ==
    [timestamp |-> t,
     url_pattern |-> Netloc(u),
     user_intent |-> q,
     opportunities_found |-> 0]

\* the learning record, without its duration, content size, strategy name
\* and adaptation notes
LearningRecord(t, u, q, res) ==
    [timestamp |-> t,
     url_pattern |-> Netloc(u),
     user_intent |-> q,
     opportunities_found |-> Len(res.discovered_opportunities)]

\* a trim that keeps the first records
TrimWindowOldest(h) == IF Len(h) > HistoryLimit THEN SubSeq(h, 1, HistoryLimit) ELSE h

\* if len(self.success_history) > 100: keep the last 100
TrimWindow(h) ==
    IF Len(h) > HistoryLimit THEN SubSeq(h, Len(h) - HistoryLimit + 1, Len(h)) ELSE h

\* a recorder whose store failure escapes before the append
LearnFromCrawlUnguarded(history, record, store_outcome) ==
    IF store_outcome = "raises"
    THEN [raised |-> TRUE, history |-> history]
    ELSE [raised |-> FALSE, history |-> TrimWindow(Append(history, record))]

\* a recorder that trims the window before it appends
LearnFromCrawlTrimFirst(history, record, store_outcome) ==
    [raised |-> FALSE, history |-> Append(TrimWindow(history), record)]

\* a recorder that keeps the record only when the store took it
LearnFromCrawlOnStoreSuccess(history, record, store_outcome) ==
    [raised |-> FALSE,
     history |-> IF store_outcome = "ok" THEN TrimWindow(Append(history, record)) ELSE history]

\* the store insert is guarded; the append and the trim always happen
LearnFromCrawl(history, record, store_outcome) ==
    [raised |-> FALSE, history |-> TrimWindow(Append(history, record))]

(***************************************************************************)
(* proactive_discovery                                                     *)
(***************************************************************************)
NoValue == [type |-> "none"]

\* proactive_discovery whose handler does not cover a reply that is not JSON
ProactiveDiscoveryResultNull(reply) ==
    IF reply.kind = "object"
    THEN Get(reply, "suggested_urls", JsonArray(<<>>))
    ELSE IF reply.kind = "text" THEN JsonNull ELSE JsonArray(<<>>)

\* suggestions.get("suggested_urls", []), or [] when anything raised
ProactiveDiscoveryResult(reply) ==
    IF reply.kind = "object"
    THEN Get(reply, "suggested_urls", JsonArray(<<>>))
    ELSE JsonArray(<<>>)

(***************************************************************************)
(* _load_learned_patterns: the rows of the table learned_patterns become a *)
(* dict from pattern_type to pattern_data.                                 *)
(***************************************************************************)
StoreRows == <<[pattern_type |-> "selector", pattern_data |-> "div.deal"]>>

StoreLoads ==
    {[kind |-> "raises"], [kind |-> "rows", rows |-> <<>>], [kind |-> "rows", rows |-> StoreRows]}

EmptyStore == [kind |-> "rows", rows |-> <<>>]

\* patterns[row['pattern_type']] = row['pattern_data'], a later row winning
PatternsOf(rows) ==
    IF rows = <<>> THEN <<>>
    ELSE [t \in {rows[i].pattern_type : i \in 1..Len(rows)} |->
            LET last == CHOOSE i \in 1..Len(rows) :
                            /\ rows[i].pattern_type = t
                            /\ \A j \in (i + 1)..Len(rows) : rows[j].pattern_type # t
            IN rows[last].pattern_data]

\* a loader without the try: a failing select ends __init__
LoadLearnedPatternsUnguarded(load) ==
    [raised |-> load.kind = "raises",
     patterns |-> IF load.kind = "raises" THEN <<>> ELSE PatternsOf(load.rows)]

\* the patterns of the store, or {} when the select raises
LoadLearnedPatterns(load) ==
    [raised |-> FALSE,
     patterns |-> IF load.kind = "raises" THEN <<>> ELSE PatternsOf(load.rows)]

\* no prompt has been built
NoSnapshot == [sent |-> FALSE]

(***************************************************************************)
(* Concurrent adaptive_crawl calls on one crawler: coroutines of one       *)
(* event loop, which hand over control only at an await.                   *)
(***************************************************************************)
Tasks == 1..NumTasks

IdleTask ==
    [pc |-> "idle",
     url |-> "",
     user_query |-> "",
     crawl_context |-> NoContext,
     strategy |-> NoStrategy,
     follow_up_links |-> <<>>,
     link_index |-> 0,
     fetch_log |-> <<>>,
     stamp |-> 0,
     returned |-> NoResult]

\* a results dict kept on the crawler object and used by every call
ResultsOwnerShared(r) == 1

\* results is a dict created by each call of _execute_with_monitoring
ResultsOwner(r) == r

TaskIntentReplies == {[kind |-> "error"]}

TaskStrategyReplies ==
    {[kind |-> "error"],
     [kind |-> "object", keys |-> {"selected_strategy"}, selected_strategy |-> "quick_scan"]}

TaskLinkReplies ==
    {[kind |-> "error"]} \cup
    {[kind |-> "object", keys |-> {"recommended_links"},
      recommended_links |-> <<[keys |-> {"url", "reasoning"}, url |-> u]>>] : u \in FollowUrls}

\* the window of a crawler that has recorded n finished crawls
RecordedWindow(n) ==
    [i \in 1..n |->
        LearningRecord(i, "https://example.com/deals", "find deals", EmptyResults)]

WarmRecords == HistoryLimit - 1

(***************************************************************************)
(* DealHawkMCPClient (src/deal_hawk_mcp_client.py).  A deal is kept by its *)
(* source and its confidence score, scaled by 100.                         *)
(***************************************************************************)
Sites == {"https://shop.example", "https://outlet.example"}

\* a site as the loops of find_deals_intelligent take it: a target site, or
\* a dict of the discovered opportunities with its url
SiteItem(site) == [kind |-> "dict", url |-> site]

\* a discovered opportunity that is no dict: site_info.get raises
TextItem == [kind |-> "text"]

\* target_sites as the caller passes it: None, or a list
NoTargets == [given |-> FALSE, sites |-> <<>>]

TargetSiteLists == {[i \in 1..Len(ts) |-> SiteItem(ts[i])] : ts \in SeqUpTo(Sites, MaxSites) \ {<<>>}}

TargetArguments ==
    {NoTargets} \cup {[given |-> TRUE, sites |-> ts] : ts \in TargetSiteLists \cup {<<>>}}

\* if target_sites:
HasTargets(ts) == ts.given /\ ts.sites # <<>>

\* the opportunities of a discovery that found more sites than the loop takes
LongSites ==
    <<"https://a.example", "https://b.example", "https://c.example",
      "https://d.example", "https://e.example", "https://f.example">>

LongDiscovery == [i \in 1..Len(LongSites) |-> SiteItem(LongSites[i])]

\* the opportunities of a /discover_opportunities response
DiscoveredSiteLists == SeqUpTo({SiteItem(site) : site \in Sites} \cup {TextItem}, MaxSites)

\* the deals the content of a site's crawl result parses into; a site of the
\* long discovery offers at most one
SiteDeals(site) ==
    IF site \in Sites
    THEN SeqUpTo({[source |-> site, confidence_score |-> c] :
                     c \in {StructuredConfidence, TextConfidence}}, MaxSiteDeals)
    ELSE SeqUpTo({[source |-> site, confidence_score |-> TextConfidence]}, 1)

\* a request that raised
RequestError == [kind |-> "error"]

\* the responses to GET /health
HealthResponses ==
    {RequestError, [kind |-> "reply", status |-> 200], [kind |-> "reply", status |-> 503]}

\* a health check that takes every response for health
HealthCheckAnyStatus(response) == response.kind = "reply"

\* health_check: response.status == 200, False when the request raises
HealthCheck(response) == response.kind = "reply" /\ response.status = 200

\* the responses to POST /discover_opportunities
DiscoveryResponses ==
    {RequestError} \cup
    {[kind |-> "reply", status |-> 500, success |-> TRUE,
      opportunities |-> <<SiteItem("https://shop.example")>>],
     [kind |-> "reply", status |-> 200, success |-> FALSE,
      opportunities |-> <<SiteItem("https://shop.example")>>]} \cup
    {[kind |-> "reply", status |-> 200, success |-> TRUE, opportunities |-> found] :
        found \in DiscoveredSiteLists \cup {LongDiscovery}}

\* _discover_deal_sites: the opportunities of a 200 response with a true
\* success flag, [] otherwise
DiscoverDealSites(response) ==
    IF response.kind = "reply" /\ response.status = 200 /\ response.success
    THEN response.opportunities
    ELSE <<>>

\* the responses to POST /agentic_crawl for a site
CrawlResponses(site) ==
    {RequestError} \cup
    {[kind |-> "reply", status |-> 500, success |-> TRUE,
      deals |-> <<[source |-> site, confidence_score |-> TextConfidence]>>],
     [kind |-> "reply", status |-> 200, success |-> FALSE,
      deals |-> <<[source |-> site, confidence_score |-> TextConfidence]>>]} \cup
    {[kind |-> "reply", status |-> 200, success |-> TRUE, deals |-> ds] :
        ds \in SiteDeals(site)}

\* _crawl_site_for_deals and _parse_deals_from_crawl_result: the deals of a
\* 200 response with a true success flag, [] otherwise
CrawlSiteForDeals(response) ==
    IF response.kind = "reply" /\ response.status = 200 /\ response.success
    THEN response.deals
    ELSE <<>>

\* a loop over the sites that a failed crawl ends
AfterSiteAbort(response, i, n) ==
    IF i < n /\ CrawlSiteForDeals(response) # <<>> THEN "crawl" ELSE "done"

\* the for loops of find_deals_intelligent go on to the next site
AfterSite(response, i, n) == IF i < n THEN "crawl" ELSE "done"

\* a loop over all the discoveries
TopDiscoveriesAll(sites) == sites

\* deal_sites[:5]
TopDiscoveries(sites) == SubSeq(sites, 1, Min(DiscoverLimit, Len(sites)))

\* the session after a step of a call: `async with` closes it when
\* find_deals_for_product or discover_trending_deals returns or raises
SessionAfter(e, position) ==
    IF e \in {"product", "trending"} /\ position \in {"done", "raised"}
    THEN "closed" ELSE "open"

Request(kind, site, response) == [kind |-> kind, site |-> site, response |-> response]

\* d put behind the deals of a sorted list that score at least as high
InsertByConfidence(d, sorted) ==
    LET k == Cardinality({i \in 1..Len(sorted) :
                            sorted[i].confidence_score >= d.confidence_score})
    IN SubSeq(sorted, 1, k) \o <<d>> \o SubSeq(sorted, k + 1, Len(sorted))

\* the deals returned as they were collected
SortedByConfidenceUnsorted(ds) == ds

\* sorted(deals, key=lambda x: x.confidence_score, reverse=True), a stable sort
RECURSIVE SortedByConfidence(_)
SortedByConfidence(ds) ==
    IF ds = <<>> THEN <<>>
    ELSE InsertByConfidence(ds[Len(ds)], SortedByConfidence(SubSeq(ds, 1, Len(ds) - 1)))

(***************************************************************************)
(* The agentic_crawl handlers: AgenticAPIHandler._agentic_crawl            *)
(* (src/src/enhanced_http_server.py) and the MCP tool agentic_crawl        *)
(* (src/src/enhanced_mcp_server.py).                                       *)
(***************************************************************************)
Handlers == {"http", "mcp"}

ClientTypes == {"api", "discord"}

NoResponse == [kind |-> "none"]

\* {'success': True, ...} and {'success': False, 'error': str(e)}
JsonResponse(success) == [kind |-> "json", success |-> success]

\* _format_discord_response: an embed and the opportunities, no success key
EmbedResponse == [kind |-> "embed"]

\* what stops a handler before the run: the HTTP server has no crawler, the
\* context argument of the MCP tool is no JSON text
EarlyFailures == {"none", "unavailable"}

\* a handler that stores documents for every result
WritesDocumentsAlways(res) == TRUE

\* if results.get("primary_content"):
WritesDocuments(res) == res.primary_content # <<>>

\* the response of a handler whose run returned and whose write, if any, had
\* this outcome; only the HTTP handler looks at client_type
HandlerResponse(h, client_type, write_outcome) ==
    IF write_outcome = "raises" THEN JsonResponse(FALSE)
    ELSE IF h = "http" /\ client_type = "discord" THEN EmbedResponse
    ELSE JsonResponse(TRUE)

(***************************************************************************)
(* The state after AgenticCrawler.__init__                                 *)
(***************************************************************************)
InitCalls ==
    /\ runs = 0
    /\ url = ""
    /\ user_query = ""
    /\ oracle_reply = NoReply
    /\ crawl_context = NoContext
    /\ strategy = NoStrategy
    /\ strategies = LoadBaseStrategies
    /\ results = EmptyResults
    /\ follow_up_links = <<>>
    /\ link_index = 0
    /\ fetch_log = <<>>
    /\ store_log = <<>>
    /\ returned = NoResult
    /\ oracle_log = <<>>
    /\ domain = ""
    /\ interests = <<>>
    /\ suggestions = NoValue
    /\ tasks = [r \in Tasks |-> IdleTask]
    /\ task_results = [r \in Tasks |-> EmptyResults]
    /\ sent_patterns = NoSnapshot
    /\ deal_pc = "idle"
    /\ site_queue = <<>>
    /\ site_index = 0
    /\ deals = <<>>
    /\ crawl_log = <<>>
    /\ found_deals = <<>>
    /\ entry = "none"
    /\ target_sites = NoTargets
    /\ session = "none"
    /\ request_log = <<>>
    /\ found_sites = <<>>
    /\ handler = "none"
    /\ doc_log = <<>>
    /\ handler_result = NoResponse

\* self.learned_patterns = self._load_learned_patterns(); an exception
\* leaving it would leave __init__
InitPatterns(load) ==
    /\ store_load = load
    /\ learned_patterns = LoadLearnedPatterns(load).patterns
    /\ pc = IF LoadLearnedPatterns(load).raised THEN "unconstructed" ELSE "idle"

\* a crawler built on a store with no learned patterns
Init ==
    /\ InitCalls
    /\ InitPatterns(EmptyStore)
    /\ success_history = <<>>
    /\ clock = 0

(***************************************************************************)
(* adaptive_crawl, phase 1: the call starts and analyze_intent runs.       *)
(***************************************************************************)
StartAdaptiveCrawl(urls) ==
    /\ pc = "idle"
    /\ runs < MaxRuns
    /\ \E u \in urls, q \in Queries, reply \in IntentReplies :
        /\ url' = u
        /\ user_query' = q
        /\ oracle_reply' = reply
        /\ crawl_context' = AnalyzeIntent(reply)
    /\ runs' = runs + 1
    /\ strategy' = NoStrategy
    /\ results' = EmptyResults
    /\ follow_up_links' = <<>>
    /\ link_index' = 0
    /\ fetch_log' = <<>>
    /\ store_log' = <<>>
    /\ returned' = NoResult
    /\ oracle_log' = <<"intent">>
    /\ domain' = ""
    /\ interests' = <<>>
    /\ suggestions' = NoValue
    /\ pc' = "select"
    /\ UNCHANGED <<strategies, success_history, clock, task_vars>>
    /\ sent_patterns' = learned_patterns
    /\ UNCHANGED <<pattern_vars, deal_vars, transport_vars>>

CallAnalyzeIntent == StartAdaptiveCrawl(TargetUrls)

\* the same call with a url that is not a well-formed url
CallAnalyzeIntentInvalid == StartAdaptiveCrawl(InvalidUrls)

(***************************************************************************)
(* adaptive_crawl, phase 2: select_strategy.                               *)
(***************************************************************************)
CallSelectStrategy ==
    /\ pc = "select"
    /\ \E reply \in StrategyReplies :
        LET sel == SelectStrategy(strategies, reply)
        IN /\ oracle_reply' = reply
           /\ strategy' = sel.strategy
           /\ strategies' = sel.strategies
    /\ oracle_log' = Append(oracle_log, "strategy")
    /\ pc' = "primary"
    /\ UNCHANGED <<discovery_vars, task_vars>>
    /\ UNCHANGED <<runs, url, user_query, crawl_context, results, follow_up_links,
                   link_index, fetch_log, store_log, success_history, clock, returned>>
    /\ UNCHANGED <<pattern_vars, sent_patterns, deal_vars, transport_vars>>

(***************************************************************************)
(* _execute_with_monitoring: the primary crawl.  A fetch that raises is    *)
(* not caught here, nor in adaptive_crawl.                                 *)
(***************************************************************************)
PrimaryFetch ==
    /\ pc = "primary"
    /\ \E outcome \in FetchOutcomes :
        /\ fetch_log' = Append(fetch_log, [url |-> url, outcome |-> outcome])
        /\ results' = IF outcome = "ok"
                      THEN [EmptyResults EXCEPT !.primary_content = PrimaryContent(url)]
                      ELSE EmptyResults
        /\ pc' = CASE outcome = "raises" -> "raised"
                   [] outcome = "ok" /\ FollowsLinks(strategy) -> "identify"
                   [] OTHER -> "learn"
    /\ UNCHANGED <<oracle_log, discovery_vars, task_vars>>
    /\ UNCHANGED <<runs, url, user_query, oracle_reply, crawl_context, strategy, strategies,
                   follow_up_links, link_index, store_log, success_history, clock, returned>>
    /\ UNCHANGED <<pattern_vars, sent_patterns, deal_vars, transport_vars>>

(***************************************************************************)
(* _execute_with_monitoring: _identify_follow_up_links.                    *)
(***************************************************************************)
FollowUpSelect ==
    /\ pc = "identify"
    /\ \E reply \in LinkReplies :
        LET links == IdentifyFollowUpLinks(reply)
        IN /\ oracle_reply' = reply
           /\ follow_up_links' = links
           /\ link_index' = IF SelectedLinks(links) = <<>> THEN 0 ELSE 1
           /\ pc' = IF SelectedLinks(links) = <<>> THEN "learn" ELSE "follow"
    /\ oracle_log' = Append(oracle_log, "links")
    /\ UNCHANGED <<discovery_vars, task_vars>>
    /\ UNCHANGED <<runs, url, user_query, crawl_context, strategy, strategies, results,
                   fetch_log, store_log, success_history, clock, returned>>
    /\ UNCHANGED <<pattern_vars, sent_patterns, deal_vars, transport_vars>>

(***************************************************************************)
(* _execute_with_monitoring: one iteration of the follow-up loop.          *)
(***************************************************************************)
FollowUpFetch ==
    /\ pc = "follow"
    /\ LET selected == SelectedLinks(follow_up_links)
           link_url == selected[link_index]
       IN \E outcome \in FetchOutcomes :
            /\ fetch_log' = Append(fetch_log, [url |-> link_url, outcome |-> outcome])
            /\ results' = FollowUpResult(results, link_url, outcome)
            /\ pc' = AfterFollowUp(outcome, link_index, Len(selected))
            /\ link_index' = link_index + 1
    /\ UNCHANGED <<oracle_log, discovery_vars, task_vars>>
    /\ UNCHANGED <<runs, url, user_query, oracle_reply, crawl_context, strategy, strategies,
                   follow_up_links, store_log, success_history, clock, returned>>
    /\ UNCHANGED <<pattern_vars, sent_patterns, deal_vars, transport_vars>>

(***************************************************************************)
(* adaptive_crawl, phase 4: _learn_from_crawl, then return results.        *)
(***************************************************************************)
Learn ==
    /\ pc = "learn"
    /\ \E store_outcome \in StoreOutcomes :
        LET record == LearningRecord(clock + 1, url, user_query, results)
            learnt == LearnFromCrawl(success_history, record, store_outcome)
        IN /\ store_log' = Append(store_log, store_outcome)
           /\ success_history' = learnt.history
           /\ pc' = IF learnt.raised THEN "raised" ELSE "returned"
           /\ returned' = IF learnt.raised THEN NoResult ELSE results
    /\ clock' = clock + 1
    /\ UNCHANGED <<oracle_log, discovery_vars, task_vars>>
    /\ UNCHANGED <<runs, url, user_query, oracle_reply, crawl_context, strategy, strategies,
                   results, follow_up_links, link_index, fetch_log>>
    /\ UNCHANGED <<pattern_vars, sent_patterns, deal_vars, transport_vars>>

(***************************************************************************)
(* proactive_discovery: one oracle call, no fetch, no store write.         *)
(***************************************************************************)
ProactiveDiscovery ==
    /\ pc = "idle"
    /\ \E d \in Domains, i \in InterestLists, reply \in DiscoveryReplies :
        /\ domain' = d
        /\ interests' = i
        /\ oracle_reply' = reply
        /\ suggestions' = ProactiveDiscoveryResult(reply)
    /\ oracle_log' = <<"discovery">>
    /\ pc' = "discovered"
    /\ url' = ""
    /\ user_query' = ""
    /\ crawl_context' = NoContext
    /\ strategy' = NoStrategy
    /\ results' = EmptyResults
    /\ follow_up_links' = <<>>
    /\ link_index' = 0
    /\ fetch_log' = <<>>
    /\ store_log' = <<>>
    /\ returned' = NoResult
    /\ UNCHANGED <<runs, strategies, success_history, clock, task_vars>>
    /\ sent_patterns' = learned_patterns
    /\ UNCHANGED <<pattern_vars, deal_vars, transport_vars>>

(***************************************************************************)
(* The caller has the value or the exception of the finished call; the     *)
(* locals of the call are gone and the crawler is ready for the next call. *)
(***************************************************************************)
CallReturns ==
    /\ pc \in {"returned", "raised", "discovered"}
    /\ pc' = "idle"
    /\ url' = ""
    /\ user_query' = ""
    /\ oracle_reply' = NoReply
    /\ crawl_context' = NoContext
    /\ strategy' = NoStrategy
    /\ results' = EmptyResults
    /\ follow_up_links' = <<>>
    /\ link_index' = 0
    /\ fetch_log' = <<>>
    /\ store_log' = <<>>
    /\ returned' = NoResult
    /\ oracle_log' = <<>>
    /\ domain' = ""
    /\ interests' = <<>>
    /\ suggestions' = NoValue
    /\ UNCHANGED <<runs, strategies, success_history, clock, task_vars>>
    /\ sent_patterns' = NoSnapshot
    /\ UNCHANGED <<pattern_vars, deal_vars, transport_vars>>

Next ==
    \/ CallAnalyzeIntent
    \/ CallSelectStrategy
    \/ PrimaryFetch
    \/ FollowUpSelect
    \/ FollowUpFetch
    \/ Learn
    \/ ProactiveDiscovery
    \/ CallReturns

Spec == Init /\ [][Next]_vars

(***************************************************************************)
(* The same crawler when every adaptive_crawl call gets an invalid url.    *)
(***************************************************************************)
NextInvalid ==
    \/ CallAnalyzeIntentInvalid
    \/ CallSelectStrategy
    \/ PrimaryFetch
    \/ FollowUpSelect
    \/ FollowUpFetch
    \/ Learn
    \/ ProactiveDiscovery
    \/ CallReturns

SpecInvalid == Init /\ [][NextInvalid]_vars

(***************************************************************************)
(* The learning recorder on its own: _learn_from_crawl called for one      *)
(* finished crawl after the other on the same crawler.                     *)
(***************************************************************************)
RecordEvent ==
    /\ pc = "idle"
    /\ clock < MaxRecords
    /\ \E u \in TargetUrls, q \in Queries, store_outcome \in StoreOutcomes :
        LET record == LearningRecord(clock + 1, u, q, EmptyResults)
            learnt == LearnFromCrawl(success_history, record, store_outcome)
        IN /\ store_log' = <<store_outcome>>
           /\ success_history' = learnt.history
    /\ clock' = clock + 1
    /\ UNCHANGED <<oracle_log, discovery_vars, task_vars>>
    /\ UNCHANGED <<pc, runs, url, user_query, oracle_reply, crawl_context, strategy,
                   strategies, results, follow_up_links, link_index, fetch_log, returned>>
    /\ UNCHANGED <<pattern_vars, sent_patterns, deal_vars, transport_vars>>

NextWindow == RecordEvent

SpecWindow == Init /\ [][NextWindow]_vars

(***************************************************************************)
(* Concurrent calls.  Each action is the code of one call between two      *)
(* awaits; _learn_from_crawl contains no await, so it is one action.       *)
(***************************************************************************)
InitConcurrent ==
    /\ InitCalls
    /\ InitPatterns(EmptyStore)
    /\ success_history = RecordedWindow(WarmRecords)
    /\ clock = WarmRecords

\* adaptive_crawl is called; analyze_intent gets its reply
TaskStart(r) ==
    /\ tasks[r].pc = "idle"
    /\ \E u \in TargetUrls, q \in Queries, reply \in TaskIntentReplies :
        tasks' = [tasks EXCEPT ![r] =
                    [@ EXCEPT !.pc = "select",
                              !.url = u,
                              !.user_query = q,
                              !.crawl_context = AnalyzeIntent(reply)]]
    /\ UNCHANGED <<call_vars, discovery_vars, strategies, success_history, clock, task_results>>
    /\ UNCHANGED <<pattern_vars, sent_patterns, deal_vars, transport_vars>>

\* select_strategy gets its reply; _execute_with_monitoring creates results
\* and awaits the primary fetch
TaskSelect(r) ==
    /\ tasks[r].pc = "select"
    /\ \E reply \in TaskStrategyReplies :
        LET sel == SelectStrategy(strategies, reply)
        IN /\ tasks' = [tasks EXCEPT ![r] =
                          [@ EXCEPT !.pc = "primary", !.strategy = sel.strategy]]
           /\ strategies' = sel.strategies
    /\ task_results' = [task_results EXCEPT ![ResultsOwner(r)] = EmptyResults]
    /\ UNCHANGED <<call_vars, discovery_vars, success_history, clock>>
    /\ UNCHANGED <<pattern_vars, sent_patterns, deal_vars, transport_vars>>

\* the primary fetch has ended
TaskPrimary(r) ==
    /\ tasks[r].pc = "primary"
    /\ \E outcome \in FetchOutcomes :
        /\ tasks' = [tasks EXCEPT ![r] =
                       [@ EXCEPT !.fetch_log = Append(@, [url |-> tasks[r].url,
                                                          outcome |-> outcome]),
                                 !.pc = CASE outcome = "raises" -> "raised"
                                          [] outcome = "ok" /\ FollowsLinks(tasks[r].strategy)
                                               -> "identify"
                                          [] OTHER -> "learn"]]
        /\ task_results' =
              IF outcome = "ok"
              THEN [task_results EXCEPT ![ResultsOwner(r)] =
                      [@ EXCEPT !.primary_content = PrimaryContent(tasks[r].url)]]
              ELSE task_results
    /\ UNCHANGED <<call_vars, discovery_vars, strategies, success_history, clock>>
    /\ UNCHANGED <<pattern_vars, sent_patterns, deal_vars, transport_vars>>

\* _identify_follow_up_links gets its reply
TaskIdentify(r) ==
    /\ tasks[r].pc = "identify"
    /\ \E reply \in TaskLinkReplies :
        LET links == IdentifyFollowUpLinks(reply)
        IN tasks' = [tasks EXCEPT ![r] =
                       [@ EXCEPT !.follow_up_links = links,
                                 !.link_index = IF SelectedLinks(links) = <<>> THEN 0 ELSE 1,
                                 !.pc = IF SelectedLinks(links) = <<>>
                                        THEN "learn" ELSE "follow"]]
    /\ UNCHANGED <<call_vars, discovery_vars, strategies, success_history, clock, task_results>>
    /\ UNCHANGED <<pattern_vars, sent_patterns, deal_vars, transport_vars>>

\* one follow-up fetch has ended
TaskFollow(r) ==
    /\ tasks[r].pc = "follow"
    /\ LET selected == SelectedLinks(tasks[r].follow_up_links)
           link_url == selected[tasks[r].link_index]
       IN \E outcome \in FetchOutcomes :
            /\ tasks' = [tasks EXCEPT ![r] =
                           [@ EXCEPT !.fetch_log = Append(@, [url |-> link_url,
                                                              outcome |-> outcome]),
                                     !.link_index = @ + 1,
                                     !.pc = AfterFollowUp(outcome, tasks[r].link_index,
                                                          Len(selected))]]
            /\ task_results' = [task_results EXCEPT ![ResultsOwner(r)] =
                                  FollowUpResult(@, link_url, outcome)]
    /\ UNCHANGED <<call_vars, discovery_vars, strategies, success_history, clock>>
    /\ UNCHANGED <<pattern_vars, sent_patterns, deal_vars, transport_vars>>

\* _learn_from_crawl from its first to its last line, then return results
TaskLearn(r) ==
    /\ tasks[r].pc = "learn"
    /\ \E store_outcome \in StoreOutcomes :
        LET res == task_results[ResultsOwner(r)]
            record == LearningRecord(clock + 1, tasks[r].url, tasks[r].user_query, res)
            learnt == LearnFromCrawl(success_history, record, store_outcome)
        IN /\ success_history' = learnt.history
           /\ tasks' = [tasks EXCEPT ![r] =
                          [@ EXCEPT !.pc = IF learnt.raised THEN "raised" ELSE "returned",
                                    !.stamp = clock + 1,
                                    !.returned = IF learnt.raised THEN NoResult ELSE res]]
    /\ clock' = clock + 1
    /\ UNCHANGED <<call_vars, discovery_vars, strategies, task_results>>
    /\ UNCHANGED <<pattern_vars, sent_patterns, deal_vars, transport_vars>>

NextConcurrent ==
    \E r \in Tasks :
        \/ TaskStart(r)
        \/ TaskSelect(r)
        \/ TaskPrimary(r)
        \/ TaskIdentify(r)
        \/ TaskFollow(r)
        \/ TaskLearn(r)

SpecConcurrent == InitConcurrent /\ [][NextConcurrent]_vars

(***************************************************************************)
(* The crawler from its construction on, whatever the store answered to    *)
(* the select of _load_learned_patterns.                                   *)
(***************************************************************************)
InitStartup ==
    /\ InitCalls
    /\ \E load \in StoreLoads : InitPatterns(load)
    /\ success_history = <<>>
    /\ clock = 0

CallAnalyzeIntentStartup ==
    /\ runs < MaxStartupRuns
    /\ StartAdaptiveCrawl(TargetUrls)

NextStartup ==
    \/ CallAnalyzeIntentStartup
    \/ CallSelectStrategy
    \/ PrimaryFetch
    \/ FollowUpSelect
    \/ FollowUpFetch
    \/ Learn
    \/ ProactiveDiscovery
    \/ CallReturns

SpecStartup == InitStartup /\ [][NextStartup]_vars

(***************************************************************************)
(* The same calls on a crawler that is new, or whose window is full from   *)
(* the crawls it has recorded before.                                      *)
(***************************************************************************)
WindowLevels == {0, HistoryLimit}

InitWarm ==
    /\ InitCalls
    /\ InitPatterns(EmptyStore)
    /\ \E n \in WindowLevels :
          /\ success_history = RecordedWindow(n)
          /\ clock = n

SpecWarm == InitWarm /\ [][NextStartup]_vars

(***************************************************************************)
(* A crawler on an empty store when every awaited call returns or raises:  *)
(* the step of the run that waits for it is then taken.                    *)
(***************************************************************************)
RunStep ==
    \/ CallSelectStrategy
    \/ PrimaryFetch
    \/ FollowUpSelect
    \/ FollowUpFetch
    \/ Learn

SpecFair == Init /\ [][NextStartup]_vars /\ WF_vars(RunStep)

(***************************************************************************)
(* select_strategy called on its own, one call after the other, with the   *)
(* same context and url and an oracle stub that repeats its decision.      *)
(***************************************************************************)
SelectStrategyCall(r) ==
    /\ pc = "idle"
    /\ tasks[r].pc = "idle"
    /\ \A q \in Tasks : q < r => tasks[q].pc = "selected"
    /\ \E u \in TargetUrls,
          reply \in (IF oracle_reply = NoReply THEN SelectReplies ELSE {oracle_reply}) :
        LET sel == SelectStrategy(strategies, reply)
        IN /\ oracle_reply' = reply
           /\ strategies' = sel.strategies
           /\ tasks' = [tasks EXCEPT ![r] =
                          [@ EXCEPT !.pc = "selected",
                                    !.url = u,
                                    !.crawl_context = FallbackContext,
                                    !.strategy = sel.strategy]]
    /\ UNCHANGED <<pc, runs, url, user_query, crawl_context, strategy, results,
                   follow_up_links, link_index, fetch_log, store_log, returned, oracle_log>>
    /\ UNCHANGED <<discovery_vars, success_history, clock, task_results>>
    /\ UNCHANGED <<pattern_vars, sent_patterns, deal_vars, transport_vars>>

NextSelect == \E r \in Tasks : SelectStrategyCall(r)

SpecSelect == Init /\ [][NextSelect]_vars

(***************************************************************************)
(* One agentic_crawl request after the other through a transport handler.  *)
(***************************************************************************)
DealsUntouched == UNCHANGED deal_vars

RunUntouched ==
    UNCHANGED <<call_vars, discovery_vars, task_vars, pattern_vars, sent_patterns,
                strategies, success_history, clock>>

\* the request arrives; the handler stops early or goes on to adaptive_crawl
HandlerReceive ==
    /\ pc = "idle"
    /\ runs < MaxStartupRuns
    /\ handler = "none" \/ handler_result # NoResponse
    /\ \E h \in Handlers, early \in EarlyFailures :
        /\ handler' = h
        /\ handler_result' = IF early = "none" THEN NoResponse ELSE JsonResponse(FALSE)
    /\ doc_log' = <<>>
    /\ RunUntouched
    /\ DealsUntouched

\* the run of adaptive_crawl the handler awaits
HandlerRun ==
    /\ handler \in Handlers
    /\ handler_result = NoResponse
    /\ CallAnalyzeIntentStartup \/ RunStep

\* the run is over: its exception is caught, or its documents are stored
\* and the response is built; an exception of the write is caught too
HandlerFinish ==
    /\ handler \in Handlers
    /\ handler_result = NoResponse
    /\ pc \in {"returned", "raised"}
    /\ IF pc = "raised"
       THEN /\ handler_result' = JsonResponse(FALSE)
            /\ doc_log' = doc_log
       ELSE \E client_type \in ClientTypes :
              IF WritesDocuments(returned)
              THEN \E write_outcome \in StoreOutcomes :
                     /\ doc_log' = Append(doc_log, [url |-> url, outcome |-> write_outcome])
                     /\ handler_result' = HandlerResponse(handler, client_type, write_outcome)
              ELSE /\ doc_log' = doc_log
                   /\ handler_result' = HandlerResponse(handler, client_type, "none")
    /\ handler' = handler
    /\ RunUntouched
    /\ DealsUntouched

\* the handler has answered; the call of adaptive_crawl is gone
HandlerReturn ==
    /\ handler_result # NoResponse
    /\ CallReturns

NextTransport ==
    \/ HandlerReceive
    \/ HandlerRun
    \/ HandlerFinish
    \/ HandlerReturn

SpecTransport == Init /\ [][NextTransport]_vars

(***************************************************************************)
(* find_deals_intelligent and find_deals_for_product.                      *)
(***************************************************************************)
\* the loop over queue starts; without a site the sorted empty list returns
StartSiteLoop(e, queue) ==
    /\ site_queue' = queue
    /\ site_index' = IF queue = <<>> THEN 0 ELSE 1
    /\ deals' = <<>>
    /\ crawl_log' = <<>>
    /\ found_deals' = SortedByConfidence(<<>>)
    /\ deal_pc' = IF queue = <<>> THEN "done" ELSE "crawl"
    /\ session' = SessionAfter(e, IF queue = <<>> THEN "done" ELSE "crawl")

CrawlerUntouched ==
    UNCHANGED <<call_vars, discovery_vars, task_vars, pattern_vars, sent_patterns,
                strategies, success_history, clock, transport_vars>>

\* find_deals_intelligent with target_sites, on a client whose session the
\* caller has opened
FindDealsTargets ==
    /\ deal_pc = "idle"
    /\ entry' = "intelligent"
    /\ \E ts \in TargetArguments :
        /\ HasTargets(ts)
        /\ target_sites' = ts
        /\ StartSiteLoop("intelligent", ts.sites)
    /\ UNCHANGED <<request_log, found_sites>>
    /\ CrawlerUntouched

\* find_deals_intelligent without target_sites: _discover_deal_sites is awaited
FindDealsDiscover ==
    /\ deal_pc = "idle"
    /\ entry' = "intelligent"
    /\ \E ts \in TargetArguments :
        /\ ~HasTargets(ts)
        /\ target_sites' = ts
    /\ session' = "open"
    /\ deal_pc' = "discover"
    /\ UNCHANGED <<site_queue, site_index, deals, crawl_log, found_deals,
                   request_log, found_sites>>
    /\ CrawlerUntouched

\* `async with DealHawkMCPClient(...)` and the health check of
\* find_deals_for_product and discover_trending_deals
HealthChecked(e) ==
    /\ deal_pc = "idle"
    /\ entry' = e
    /\ target_sites' = NoTargets
    /\ \E response \in HealthResponses :
        /\ request_log' = <<Request("health", "", response)>>
        /\ deal_pc' = IF HealthCheck(response) THEN "discover" ELSE "raised"
        /\ session' = SessionAfter(e, IF HealthCheck(response) THEN "discover" ELSE "raised")
    /\ UNCHANGED <<site_queue, site_index, deals, crawl_log, found_deals, found_sites>>
    /\ CrawlerUntouched

\* find_deals_for_product: then find_deals_intelligent without target_sites
FindDealsForProduct == HealthChecked("product")

\* discover_trending_deals: then _discover_deal_sites
DiscoverTrendingDeals == HealthChecked("trending")

\* _discover_deal_sites has its response: discover_trending_deals returns the
\* sites, find_deals_intelligent starts the loop over the top 5
DiscoverSites ==
    /\ deal_pc = "discover"
    /\ \E response \in DiscoveryResponses :
        /\ request_log' = Append(request_log, Request("discover", "", response))
        /\ IF entry = "trending"
           THEN /\ found_sites' = DiscoverDealSites(response)
                /\ deal_pc' = "done"
                /\ session' = SessionAfter(entry, "done")
                /\ UNCHANGED <<site_queue, site_index, deals, crawl_log, found_deals>>
           ELSE /\ StartSiteLoop(entry, TopDiscoveries(DiscoverDealSites(response)))
                /\ found_sites' = found_sites
    /\ UNCHANGED <<entry, target_sites>>
    /\ CrawlerUntouched

\* one iteration of the loop; after the last one the sorted deals return
CrawlSite ==
    /\ deal_pc = "crawl"
    /\ LET item == site_queue[site_index]
       IN IF item.kind # "dict"
          THEN /\ deal_pc' = "raised"
               /\ session' = SessionAfter(entry, "raised")
               /\ UNCHANGED <<site_queue, site_index, deals, crawl_log, found_deals,
                              request_log>>
          ELSE \E response \in CrawlResponses(item.url) :
                 LET site_deals == CrawlSiteForDeals(response)
                     position == AfterSite(response, site_index, Len(site_queue))
                 IN /\ request_log' = Append(request_log, Request("crawl", item.url, response))
                    /\ deals' = deals \o site_deals
                    /\ crawl_log' = Append(crawl_log, [site |-> item.url, deals |-> site_deals])
                    /\ site_index' = site_index + 1
                    /\ deal_pc' = position
                    /\ session' = SessionAfter(entry, position)
                    /\ found_deals' = IF position = "crawl"
                                      THEN found_deals
                                      ELSE SortedByConfidence(deals \o site_deals)
                    /\ UNCHANGED site_queue
    /\ UNCHANGED <<entry, target_sites, found_sites>>
    /\ CrawlerUntouched

NextDeals ==
    \/ FindDealsTargets
    \/ FindDealsDiscover
    \/ FindDealsForProduct
    \/ DiscoverTrendingDeals
    \/ DiscoverSites
    \/ CrawlSite

SpecDeals == Init /\ [][NextDeals]_vars

(***************************************************************************)
(* What the fetch log of a call says its result should be.                 *)
(***************************************************************************)
FirstThree(links) == SubSeq(links, 1, Min(3, Len(links)))

FollowUpCalls == IF fetch_log = <<>> THEN <<>> ELSE Tail(fetch_log)

PrimarySucceeded == fetch_log # <<>> /\ fetch_log[1].outcome = "ok"

RECURSIVE OpportunitiesOf(_)
OpportunitiesOf(calls) ==
    IF calls = <<>> THEN <<>>
    ELSE IF Head(calls).outcome = "ok"
         THEN <<Opportunity(Head(calls).url)>> \o OpportunitiesOf(Tail(calls))
         ELSE OpportunitiesOf(Tail(calls))

RECURSIVE LogLinesOf(_, _)
LogLinesOf(calls, outcomes) ==
    IF calls = <<>> THEN <<>>
    ELSE IF Head(calls).outcome \in outcomes
         THEN <<LogLine(Head(calls).url)>> \o LogLinesOf(Tail(calls), outcomes)
         ELSE LogLinesOf(Tail(calls), outcomes)

ExpectedOf(log) ==
    IF log # <<>> /\ log[1].outcome = "ok"
    THEN [primary_content |-> PrimaryContent(log[1].url),
          discovered_opportunities |-> OpportunitiesOf(Tail(log)),
          performance_metrics |-> <<>>,
          adaptation_log |-> LogLinesOf(Tail(log), {"raises"})]
    ELSE EmptyResults

ExpectedResult == ExpectedOf(fetch_log)

(***************************************************************************)
(* C1: adaptive_crawl with a well-formed url always returns a CrawlResult  *)
(* and never raises, whatever the oracle, the fetch engine and the store   *)
(* do; a primary fetch that raises still ends in a returned result.        *)
(***************************************************************************)
C1_NeverRaises == pc # "raised"

(***************************************************************************)
(* C2: whatever list of follow-up urls the oracle recommends, the          *)
(* opportunities of the result being built and of the returned result      *)
(* number at most 3.                                                       *)
(***************************************************************************)
C2_OpportunitiesBounded ==
    /\ Len(results.discovered_opportunities) <= 3
    /\ (pc = "returned" => Len(returned.discovered_opportunities) <= 3)

C2_Witness ==
    /\ pc = "returned"
    /\ Len(follow_up_links) > 3
    /\ Len(returned.discovered_opportunities) = 3

(***************************************************************************)
(* C3: after a successful primary fetch, a failing follow-up fetch (raised *)
(* or unsuccessful) does not abort the others: every one of the first 3    *)
(* recommended urls is fetched, in order, every url whose fetch succeeded  *)
(* is an opportunity, and the primary content is kept.                     *)
(***************************************************************************)
C3_FollowUpIsolation ==
    pc = "returned" /\ PrimarySucceeded =>
        /\ [i \in 1..Len(FollowUpCalls) |-> FollowUpCalls[i].url] = FirstThree(follow_up_links)
        /\ returned.discovered_opportunities = OpportunitiesOf(FollowUpCalls)
        /\ returned.primary_content = PrimaryContent(url)

C3_Witness ==
    /\ pc = "returned"
    /\ Len(fetch_log) = 4
    /\ fetch_log[1].outcome = "ok"
    /\ fetch_log[2].outcome = "ok"
    /\ fetch_log[3].outcome = "raises"
    /\ fetch_log[4].outcome = "ok"
    /\ fetch_log[2].url # fetch_log[4].url
    /\ returned.discovered_opportunities =
          <<Opportunity(follow_up_links[1]), Opportunity(follow_up_links[3])>>
    /\ returned.primary_content = PrimaryContent(url)

(***************************************************************************)
(* C4: every failed follow-up fetch, raised or unsuccessful, adds exactly  *)
(* one diagnostic entry naming its url to the adaptation log, so the       *)
(* returned log has one entry per failed follow-up fetch.                  *)
(***************************************************************************)
C4_OneLogEntryPerFailure ==
    pc = "returned" =>
        returned.adaptation_log = LogLinesOf(FollowUpCalls, {"raises", "unsuccessful"})

(***************************************************************************)
(* C5: the learning window never holds more than 100 records and always    *)
(* holds the most recent ones in arrival order; the 101st record evicts    *)
(* exactly the oldest one.                                                 *)
(***************************************************************************)
C5_WindowFifo ==
    /\ Len(success_history) <= 100
    /\ Len(success_history) = Min(clock, 100)
    /\ \A i \in 1..Len(success_history) :
          success_history[i].timestamp = clock - Len(success_history) + i

C5_Witness ==
    /\ clock = 101
    /\ Len(success_history) = 100
    /\ success_history[1].timestamp = 2
    /\ success_history[100].timestamp = 101

(***************************************************************************)
(* C6: when the store insert of the learning record raises, the call still *)
(* returns the result its fetches produced, no error reaches the caller,   *)
(* and the record is the newest entry of the learning window.              *)
(***************************************************************************)
C6_StoreFailureSwallowed ==
    store_log # <<>> /\ store_log[Len(store_log)] = "raises" =>
        /\ pc = "returned"
        /\ returned = ExpectedResult
        /\ success_history # <<>>
        /\ success_history[Len(success_history)] =
              [timestamp |-> clock,
               url_pattern |-> Netloc(url),
               user_intent |-> user_query,
               opportunities_found |-> Len(returned.discovered_opportunities)]

C6_Witness ==
    /\ pc = "returned"
    /\ store_log = <<"raises">>
    /\ returned.primary_content = PrimaryContent(url)
    /\ Len(returned.discovered_opportunities) = 2
    /\ success_history[Len(success_history)].timestamp = clock
    /\ success_history[Len(success_history)].opportunities_found = 2

(***************************************************************************)
(* C7: select_strategy never returns a strategy whose depth_limit is below *)
(* 0, and what it returns is a catalog entry or a modified copy of one.    *)
(***************************************************************************)
FromCatalog(s) ==
    \E k \in StrategyKeys :
        LET e == LoadBaseStrategies[k]
        IN /\ s.name = e.name
           /\ s.description = e.description
           /\ s.target_patterns = e.target_patterns
           /\ s.success_metrics = e.success_metrics
           /\ s.adaptation_rules = e.adaptation_rules

C7_DepthNonNegative ==
    strategy # NoStrategy => strategy.depth_limit >= 0 /\ FromCatalog(strategy)

(***************************************************************************)
(* C8: when the strategy oracle call fails, its reply is not JSON, or the  *)
(* selected_strategy of the reply is not a catalog key, select_strategy    *)
(* returns the deep_research entry with no modification applied.           *)
(***************************************************************************)
SelectionFails(reply) ==
    \/ reply.kind \in {"error", "text"}
    \/ /\ reply.kind = "object"
       /\ "selected_strategy" \in reply.keys
       /\ reply.selected_strategy \notin {"deep_research", "quick_scan", "discovery_mode"}

C8_FallbackDeepResearch ==
    pc = "primary" /\ SelectionFails(oracle_reply) =>
        /\ strategy = LoadBaseStrategies["deep_research"]
        /\ strategy = strategies["deep_research"]
        /\ strategy.depth_limit = 3
        /\ strategy.follow_links
        /\ strategy.extract_patterns =
              <<"main content", "citations", "references", "related links">>

C8_Witness ==
    /\ pc = "primary"
    /\ oracle_reply.kind = "object"
    /\ oracle_reply.keys = {"selected_strategy", "modifications"}
    /\ oracle_reply.selected_strategy = "turbo"
    /\ oracle_reply.modifications.keys = ModKeys
    /\ strategy = LoadBaseStrategies["deep_research"]

(***************************************************************************)
(* C9: whatever the oracle decides in any sequence of calls, every entry   *)
(* of the catalog keeps the field values it had at construction.           *)
(***************************************************************************)
C9_CatalogUnchanged == strategies = LoadBaseStrategies

C9_Witness ==
    /\ runs = 2
    /\ pc = "returned"
    /\ oracle_reply.kind = "error"
    /\ success_history # <<>>
    /\ strategy.extract_patterns =
          <<"headings", "bullet points", "key metrics", "prices">>
    /\ strategy.depth_limit = 2
    /\ strategy.follow_links

(***************************************************************************)
(* C10: when the intent oracle call fails, or its reply is not JSON or not *)
(* a JSON object, analyze_intent returns the fixed fallback context:       *)
(* intent research, empty knowledge, empty success and failure patterns.   *)
(***************************************************************************)
C10_IntentFallback ==
    pc = "select" /\ oracle_reply.kind \in {"error", "text", "array"} =>
        /\ crawl_context.user_intent = "research"
        /\ crawl_context.domain_knowledge = <<>>
        /\ crawl_context.success_patterns = <<>>
        /\ crawl_context.failure_patterns = <<>>

C10_Witness ==
    /\ pc = "select"
    /\ oracle_reply.kind = "array"
    /\ crawl_context.user_intent = "research"
    /\ crawl_context.domain_knowledge = <<>>

(***************************************************************************)
(* C11: the context analyze_intent returns always has its user_intent in   *)
(* {research, monitoring, discovery, extraction}; a reply with another     *)
(* primary_intent yields the fallback intent research.                     *)
(***************************************************************************)
C11_IntentEnumerated ==
    crawl_context # NoContext =>
        crawl_context.user_intent \in {"research", "monitoring", "discovery", "extraction"}

(***************************************************************************)
(* C12: proactive_discovery performs no fetch and no store write and       *)
(* always returns a value; when the oracle call fails or its reply is not  *)
(* JSON the value is the empty sequence, for any interests list.           *)
(***************************************************************************)
C12_DiscoveryNeverFails ==
    pc = "discovered" =>
        /\ suggestions # NoValue
        /\ fetch_log = <<>>
        /\ store_log = <<>>
        /\ oracle_log = <<"discovery">>
        /\ (oracle_reply.kind \in {"error", "text"} =>
               suggestions = [type |-> "array", items |-> <<>>])

C12_Witness ==
    /\ pc = "discovered"
    /\ domain = "example.com"
    /\ interests = <<>>
    /\ oracle_reply.kind = "text"
    /\ suggestions = [type |-> "array", items |-> <<>>]

(***************************************************************************)
(* C13: whatever JSON the oracle replies, the value proactive_discovery    *)
(* returns is a sequence whose entries are {url, reasoning} objects.       *)
(***************************************************************************)
C13_SuggestionsWellFormed ==
    pc = "discovered" =>
        /\ suggestions.type = "array"
        /\ \A i \in 1..Len(suggestions.items) :
              suggestions.items[i].keys = {"url", "reasoning"}

(***************************************************************************)
(* C14: the four phases of a run happen in the order intent, strategy,     *)
(* crawl, learning; the context and the strategy stay what their phase     *)
(* returned, the executor follows links exactly as that strategy says, and *)
(* the learning record is written once, after every fetch of the run, from *)
(* the result of the run.                                                  *)
(***************************************************************************)
RunPositions == {"select", "primary", "identify", "follow", "learn", "returned", "raised"}

C14_PhaseOrderState ==
    /\ pc = "select" =>
          /\ oracle_log = <<"intent">>
          /\ crawl_context # NoContext
          /\ strategy = NoStrategy
          /\ fetch_log = <<>>
          /\ store_log = <<>>
    /\ pc = "primary" =>
          /\ oracle_log = <<"intent", "strategy">>
          /\ strategy # NoStrategy
          /\ fetch_log = <<>>
          /\ store_log = <<>>
    /\ pc \in {"identify", "follow", "learn"} =>
          /\ SubSeq(oracle_log, 1, 2) = <<"intent", "strategy">>
          /\ fetch_log # <<>>
          /\ store_log = <<>>
    /\ (pc \in {"identify", "follow"} => (strategy.follow_links /\ strategy.depth_limit > 1))
    /\ store_log # <<>> /\ pc \in RunPositions =>
          /\ Len(store_log) = 1
          /\ pc = "returned"
          /\ ((PrimarySucceeded /\ strategy.follow_links /\ strategy.depth_limit > 1) =>
                Len(FollowUpCalls) = Min(3, Len(follow_up_links)))
          /\ success_history # <<>>
          /\ success_history[Len(success_history)].timestamp = clock
          /\ success_history[Len(success_history)].opportunities_found =
                Len(OpportunitiesOf(FollowUpCalls))

C14_OutputsKept ==
    (pc \in RunPositions /\ pc' \in RunPositions) =>
        /\ crawl_context' = crawl_context
        /\ url' = url
        /\ (pc # "select" => strategy' = strategy)

C14_PhaseOrder == []C14_PhaseOrderState /\ [][C14_OutputsKept]_vars

C14_Witness ==
    /\ pc = "returned"
    /\ oracle_log = <<"intent", "strategy", "links">>
    /\ Len(fetch_log) = 4
    /\ store_log = <<"ok">>
    /\ success_history[Len(success_history)].opportunities_found = 3

(***************************************************************************)
(* C15: a call with an empty url or an empty domain is rejected before any *)
(* phase runs: no oracle call, no fetch, no learning write.                *)
(***************************************************************************)
C15_InvalidInputRejected ==
    /\ pc \in RunPositions /\ url = "" =>
          /\ pc = "raised"
          /\ oracle_log = <<>>
          /\ fetch_log = <<>>
          /\ store_log = <<>>
    /\ pc = "discovered" /\ domain = "" =>
          /\ suggestions = NoValue
          /\ oracle_log = <<>>

(***************************************************************************)
(* C18: the follow-up oracle call and every follow-up fetch happen only    *)
(* after a successful primary fetch under a strategy with follow_links and *)
(* depth_limit > 1; otherwise the run goes from the primary fetch to its   *)
(* end with one fetch and no follow-up oracle call.                        *)
(***************************************************************************)
FollowUpStarted ==
    \/ pc \in {"identify", "follow"}
    \/ Len(fetch_log) > 1
    \/ \E i \in 1..Len(oracle_log) : oracle_log[i] = "links"

FollowUpAllowed ==
    PrimarySucceeded /\ strategy.follow_links /\ strategy.depth_limit > 1

C18_FollowUpGuard ==
    /\ FollowUpStarted => FollowUpAllowed
    /\ pc \in {"learn", "returned"} /\ ~FollowUpAllowed =>
          /\ oracle_log = <<"intent", "strategy">>
          /\ Len(fetch_log) = 1
          /\ follow_up_links = <<>>

C18_Witness ==
    /\ pc = "returned"
    /\ PrimarySucceeded
    /\ strategy.follow_links
    /\ strategy.depth_limit = 1
    /\ oracle_log = <<"intent", "strategy">>
    /\ Len(fetch_log) = 1
    /\ returned.discovered_opportunities = <<>>

(***************************************************************************)
(* C19: when the follow-up oracle call fails, or its reply is not JSON or  *)
(* has the wrong shape (not an object, an item without a url), no link is  *)
(* selected, no follow-up fetch is made, and the run returns the primary   *)
(* content with no opportunities.                                          *)
(***************************************************************************)
LinkSelectionFails(reply) ==
    \/ reply.kind \in {"error", "text", "array"}
    \/ /\ reply.kind = "object"
       /\ "recommended_links" \in reply.keys
       /\ \E i \in 1..Len(reply.recommended_links) :
             "url" \notin reply.recommended_links[i].keys

PrimaryOnly(u) ==
    [primary_content |-> PrimaryContent(u),
     discovered_opportunities |-> <<>>,
     performance_metrics |-> <<>>,
     adaptation_log |-> <<>>]

LinkOracleFailed ==
    /\ oracle_log # <<>>
    /\ oracle_log[Len(oracle_log)] = "links"
    /\ LinkSelectionFails(oracle_reply)

C19_LinkOracleFailure ==
    LinkOracleFailed =>
        /\ follow_up_links = <<>>
        /\ Len(fetch_log) = 1
        /\ pc \in {"learn", "returned"}
        /\ results = PrimaryOnly(url)
        /\ (pc = "returned" => returned = PrimaryOnly(url))

C19_Witness ==
    /\ pc = "returned"
    /\ oracle_reply.kind = "object"
    /\ "recommended_links" \in oracle_reply.keys
    /\ Len(oracle_reply.recommended_links) = 2
    /\ "url" \in oracle_reply.recommended_links[1].keys
    /\ "url" \notin oracle_reply.recommended_links[2].keys
    /\ returned = PrimaryOnly(url)

(***************************************************************************)
(* C20: of n recommended urls exactly the first min(3, n) are fetched, in  *)
(* list order, and no other url; a run makes at most 3 follow-up fetches.  *)
(***************************************************************************)
C20_FirstThreeFetched ==
    /\ Len(FollowUpCalls) <= 3
    /\ Len(FollowUpCalls) <= Len(follow_up_links)
    /\ \A i \in 1..Len(FollowUpCalls) : FollowUpCalls[i].url = follow_up_links[i]
    /\ ((pc \in {"learn", "returned"} /\ PrimarySucceeded) =>
          Len(FollowUpCalls) = Min(3, Len(follow_up_links)))

C20_Witness ==
    /\ pc = "returned"
    /\ Len(follow_up_links) = 4
    /\ Len(FollowUpCalls) = 3
    /\ \A i \in 1..3 : FollowUpCalls[i].url # follow_up_links[4]

(***************************************************************************)
(* C16: with concurrent runs reaching the learning phase in any order, the *)
(* window never holds more than 100 records, holds the newest records in   *)
(* arrival order, and holds the record of every run that has recorded      *)
(* (records leave only by eviction of the oldest).                         *)
(***************************************************************************)
Recorded == {r \in Tasks : tasks[r].pc = "returned"}

C16_WindowAtomic ==
    /\ Len(success_history) <= 100
    /\ Len(success_history) = Min(clock, 100)
    /\ clock = WarmRecords + Cardinality(Recorded)
    /\ \A i \in 1..Len(success_history) :
          success_history[i].timestamp = clock - Len(success_history) + i
    /\ \A r \in Recorded :
          /\ tasks[r].stamp \in (WarmRecords + 1)..clock
          /\ \A q \in Recorded \ {r} : tasks[q].stamp # tasks[r].stamp
          /\ tasks[r].stamp > clock - Len(success_history) =>
                success_history[tasks[r].stamp - (clock - Len(success_history))]
                    .opportunities_found =
                Len(tasks[r].returned.discovered_opportunities)

C16_Witness ==
    /\ tasks[1].pc = "returned"
    /\ tasks[2].pc = "returned"
    /\ tasks[2].stamp = 100
    /\ tasks[1].stamp = 101
    /\ Len(success_history) = 100
    /\ success_history[1].timestamp = 2
    /\ success_history[99].opportunities_found = 1
    /\ success_history[100].opportunities_found = 0

(***************************************************************************)
(* C17: concurrent runs, also of the same url, are independent: each run   *)
(* makes its own fetches, and its primary content, opportunities and       *)
(* adaptation log come from its own fetches only.                          *)
(***************************************************************************)
C17_RunsIndependent ==
    \A r \in Tasks :
        /\ tasks[r].pc \in {"identify", "follow", "learn", "returned"} =>
              /\ tasks[r].fetch_log # <<>>
              /\ tasks[r].fetch_log[1].url = tasks[r].url
              /\ task_results[r] = ExpectedOf(tasks[r].fetch_log)
        /\ tasks[r].pc = "returned" => tasks[r].returned = ExpectedOf(tasks[r].fetch_log)

C17_Witness ==
    /\ tasks[1].pc = "returned"
    /\ tasks[2].pc = "returned"
    /\ tasks[1].url = tasks[2].url
    /\ Len(tasks[1].fetch_log) = 2
    /\ Len(tasks[2].fetch_log) = 2
    /\ Len(tasks[1].returned.discovered_opportunities) = 1
    /\ tasks[1].returned.adaptation_log = <<>>
    /\ tasks[2].returned.discovered_opportunities = <<>>
    /\ Len(tasks[2].returned.adaptation_log) = 1

(***************************************************************************)
(* C21: every returned result carries a primary outcome; when the primary  *)
(* fetch did not succeed, the primary outcome names the requested url and  *)
(* is marked failed, and there are no opportunities.                       *)
(***************************************************************************)
C21_PrimaryMarkedFailed ==
    pc = "returned" =>
        /\ returned.primary_content # <<>>
        /\ ~PrimarySucceeded =>
              /\ "url" \in DOMAIN returned.primary_content
              /\ returned.primary_content.url = url
              /\ returned.primary_content # PrimaryContent(url)
              /\ returned.discovered_opportunities = <<>>

(***************************************************************************)
(* C22: a run whose primary fetch succeeds under a strategy with           *)
(* follow_links false returns the primary content of the requested url,    *)
(* no opportunities and an empty adaptation log, after one fetch and       *)
(* without asking the oracle for links, whatever the depth limit is.       *)
(***************************************************************************)
C22_NoFollowLinks ==
    (pc = "returned" /\ PrimarySucceeded /\ ~strategy.follow_links) =>
        /\ returned.primary_content =
              [url |-> url, content |-> <<"content", url>>, metadata |-> <<"metadata", url>>]
        /\ returned.discovered_opportunities = <<>>
        /\ returned.adaptation_log = <<>>
        /\ Len(fetch_log) = 1
        /\ oracle_log = <<"intent", "strategy">>

C22_Witness ==
    /\ pc = "returned"
    /\ PrimarySucceeded
    /\ ~strategy.follow_links
    /\ strategy.depth_limit = 3
    /\ strategy.name = "Deep Research"
    /\ returned.primary_content.url = url
    /\ returned.discovered_opportunities = <<>>

(***************************************************************************)
(* C25: the performance metrics of a returned result are filled from the   *)
(* run (elapsed time, counts) and are never left empty.                    *)
(***************************************************************************)
C25_MetricsAssembled == pc = "returned" => returned.performance_metrics # <<>>

(***************************************************************************)
(* C29: at every point of a run the opportunities are exactly the          *)
(* follow-up urls fetched so far whose fetch succeeded, in the order of    *)
(* the fetches, each tagged discovered_link; a url whose fetch raised or   *)
(* was unsuccessful, or that was not fetched, is no opportunity.           *)
(***************************************************************************)
SucceededUrls == {FollowUpCalls[i].url : i \in {j \in 1..Len(FollowUpCalls) :
                                                  FollowUpCalls[j].outcome = "ok"}}

C29_OpportunitiesExact ==
    pc \in {"identify", "follow", "learn", "returned"} =>
        LET opps == IF pc = "returned" THEN returned.discovered_opportunities
                    ELSE results.discovered_opportunities
        IN /\ opps = OpportunitiesOf(FollowUpCalls)
           /\ Len(opps) = Cardinality({j \in 1..Len(FollowUpCalls) :
                                          FollowUpCalls[j].outcome = "ok"})
           /\ \A i \in 1..Len(opps) :
                 /\ opps[i].relation_to_primary = "discovered_link"
                 /\ opps[i].url \in SucceededUrls

C29_Witness ==
    /\ pc = "returned"
    /\ Len(follow_up_links) = 4
    /\ Len(fetch_log) = 4
    /\ fetch_log[2] = [url |-> "https://example.com/a", outcome |-> "unsuccessful"]
    /\ fetch_log[3] = [url |-> "https://example.com/b", outcome |-> "ok"]
    /\ fetch_log[4] = [url |-> "https://example.com/a", outcome |-> "raises"]
    /\ returned.discovered_opportunities = <<Opportunity("https://example.com/b")>>

(***************************************************************************)
(* C23: select_strategy called again with the same context, url and        *)
(* oracle decision returns a strategy equal to the one of the call before: *)
(* the additional patterns of the first call are not in the second result  *)
(* a second time.                                                          *)
(***************************************************************************)
Selected == {r \in Tasks : tasks[r].pc = "selected"}

Occurrences(seq, x) == Cardinality({i \in 1..Len(seq) : seq[i] = x})

C23_SelectIdempotent ==
    \A r \in Selected :
        /\ \A q \in Selected : tasks[q].strategy = tasks[r].strategy
        /\ Occurrences(tasks[r].strategy.extract_patterns, "prices") <= 1

C23_Witness ==
    /\ Selected = Tasks
    /\ oracle_reply.kind = "object"
    /\ oracle_reply.keys = {"selected_strategy", "modifications"}
    /\ oracle_reply.selected_strategy = "quick_scan"
    /\ "keys" \in DOMAIN oracle_reply.modifications
    /\ "additional_patterns" \in oracle_reply.modifications.keys
    /\ oracle_reply.modifications.additional_patterns.type = "array"
    /\ \A r \in Tasks :
          tasks[r].strategy.extract_patterns =
              <<"headings", "bullet points", "key metrics", "prices">>

(***************************************************************************)
(* C24: a strategy returned with modifications applied has the name,       *)
(* description, target patterns, success metrics and adaptation rules of   *)
(* the selected catalog entry; its depth_limit and follow_links are the    *)
(* modification's when given and the entry's otherwise, its extraction     *)
(* patterns are the entry's followed by additional_patterns; any other key *)
(* of the modifications changes nothing.                                   *)
(***************************************************************************)
ChosenKey(reply) ==
    IF "selected_strategy" \in reply.keys THEN reply.selected_strategy ELSE "deep_research"

ModificationsApplied(reply) ==
    /\ reply.kind = "object"
    /\ "modifications" \in reply.keys
    /\ "keys" \in DOMAIN reply.modifications
    /\ reply.modifications.keys # {}
    /\ ("additional_patterns" \in reply.modifications.keys =>
           reply.modifications.additional_patterns.type = "array")
    /\ ChosenKey(reply) \in {"deep_research", "quick_scan", "discovery_mode"}

C24_ModificationFrame ==
    \A r \in Selected :
        ModificationsApplied(oracle_reply) =>
            LET e == LoadBaseStrategies[ChosenKey(oracle_reply)]
                m == oracle_reply.modifications
                s == tasks[r].strategy
            IN /\ s.name = e.name
               /\ s.description = e.description
               /\ s.target_patterns = e.target_patterns
               /\ s.success_metrics = e.success_metrics
               /\ s.adaptation_rules = e.adaptation_rules
               /\ s.depth_limit =
                     (IF "depth_limit" \in m.keys THEN m.depth_limit ELSE e.depth_limit)
               /\ s.follow_links =
                     (IF "follow_links" \in m.keys THEN m.follow_links ELSE e.follow_links)
               /\ s.extract_patterns =
                     (IF "additional_patterns" \in m.keys
                      THEN e.extract_patterns \o m.additional_patterns.items
                      ELSE e.extract_patterns)

C24_Witness ==
    /\ Selected = Tasks
    /\ ModificationsApplied(oracle_reply)
    /\ oracle_reply.modifications.keys = {"name", "depth_limit"}
    /\ oracle_reply.modifications.depth_limit = 2
    /\ oracle_reply.selected_strategy = "quick_scan"
    /\ tasks[1].strategy.name = "Quick Scanner"
    /\ tasks[1].strategy.depth_limit = 2
    /\ ~tasks[1].strategy.follow_links

(***************************************************************************)
(* C26: once a run has been recorded, the learned patterns that a later    *)
(* analyze_intent or proactive_discovery call puts into its prompt reflect *)
(* that run: on a crawler whose store held no patterns at startup they are *)
(* no longer empty.                                                        *)
(***************************************************************************)
C26_PatternStoreRefreshed ==
    (pc \in {"select", "discovered"} /\ success_history # <<>>) =>
        /\ sent_patterns # NoSnapshot
        /\ sent_patterns # <<>>

(***************************************************************************)
(* C27: when the load of the learned patterns fails at startup, the        *)
(* crawler is constructed with no learned patterns and an empty window,    *)
(* and its later runs behave as on a store without patterns: the prompts   *)
(* carry no patterns, adaptive_crawl returns what its fetches produced and *)
(* proactive_discovery what the oracle suggested.                          *)
(***************************************************************************)
C27_LoadFailureTolerated ==
    store_load.kind = "raises" =>
        /\ pc # "unconstructed"
        /\ learned_patterns = <<>>
        /\ (runs = 0 => success_history = <<>>)
        /\ sent_patterns \in {NoSnapshot, <<>>}
        /\ (pc = "returned" => returned = ExpectedResult)
        /\ (pc = "discovered" =>
              suggestions =
                 (IF oracle_reply.kind = "object" /\ "suggested_urls" \in oracle_reply.keys
                  THEN oracle_reply.suggested_urls
                  ELSE [type |-> "array", items |-> <<>>]))

C27_Witness ==
    /\ store_load.kind = "raises"
    /\ pc = "returned"
    /\ runs = 1
    /\ sent_patterns = <<>>
    /\ Len(fetch_log) = 3
    /\ Len(returned.discovered_opportunities) = 2
    /\ Len(success_history) = 1

(***************************************************************************)
(* C28: the list find_deals_intelligent returns holds the deals of every   *)
(* crawled site, each as often as the crawls returned it, in               *)
(* non-increasing order of confidence_score, in whatever order the sites   *)
(* were crawled.                                                           *)
(***************************************************************************)
RECURSIVE CrawledDeals(_)
CrawledDeals(log) ==
    IF log = <<>> THEN <<>> ELSE log[1].deals \o CrawledDeals(Tail(log))

AllDeals == {[source |-> site, confidence_score |-> c] : site \in Sites, c \in {60, 80}}

C28_DealsSorted ==
    deal_pc = "done" =>
        /\ Len(crawl_log) = Len(site_queue)
        /\ \A i \in 1..Len(crawl_log) : crawl_log[i].site = site_queue[i].url
        /\ \A i \in 1..(Len(found_deals) - 1) :
              found_deals[i].confidence_score >= found_deals[i + 1].confidence_score
        /\ Len(found_deals) = Len(CrawledDeals(crawl_log))
        /\ \A d \in AllDeals :
              Occurrences(found_deals, d) = Occurrences(CrawledDeals(crawl_log), d)

C28_Witness ==
    /\ deal_pc = "done"
    /\ Len(crawl_log) = 2
    /\ crawl_log[1].site = "https://shop.example"
    /\ crawl_log[2].site = "https://outlet.example"
    /\ crawl_log[1].deals = <<[source |-> "https://shop.example", confidence_score |-> 60]>>
    /\ crawl_log[2].deals = <<[source |-> "https://outlet.example", confidence_score |-> 80],
                              [source |-> "https://outlet.example", confidence_score |-> 60]>>
    /\ found_deals = <<[source |-> "https://outlet.example", confidence_score |-> 80],
                       [source |-> "https://shop.example", confidence_score |-> 60],
                       [source |-> "https://outlet.example", confidence_score |-> 60]>>

(***************************************************************************)
(* C30: when every awaited call returns or raises, every run ends, by a    *)
(* return or an exception, and up to there it makes at most 3 oracle calls *)
(* (intent, strategy, then at most one link selection), at most 4 fetches  *)
(* and at most 1 store write; every follow-up fetch is of a link of that   *)
(* one selection.                                                          *)
(***************************************************************************)
RunInProgress == pc \in {"select", "primary", "identify", "follow", "learn"}

RunEnded == pc \in {"returned", "raised"}

C30_CallsBounded ==
    pc \in RunPositions =>
        /\ oracle_log \in {<<"intent">>, <<"intent", "strategy">>,
                           <<"intent", "strategy", "links">>}
        /\ Len(fetch_log) <= 4
        /\ Len(store_log) <= 1
        /\ \A i \in 1..Len(FollowUpCalls) :
              \E j \in 1..Len(follow_up_links) : FollowUpCalls[i].url = follow_up_links[j]

C30_RunsTerminate == []C30_CallsBounded /\ (RunInProgress ~> RunEnded)

C30_Witness ==
    /\ pc = "returned"
    /\ oracle_log = <<"intent", "strategy", "links">>
    /\ runs = MaxStartupRuns
    /\ Len(follow_up_links) = 4
    /\ Len(fetch_log) = 4
    /\ \A i \in 1..4 : fetch_log[i].outcome = "ok"
    /\ store_log = <<"ok">>

(***************************************************************************)
(* C33: select_strategy returns the selected catalog entry itself when the *)
(* reply has no or empty modifications, a copy of it with every requested  *)
(* modification applied, or the unmodified deep_research entry. When       *)
(* applying the modifications raises, the copy is dropped and the result   *)
(* is the unmodified deep_research entry, also for a valid key; a reply    *)
(* without selected_strategy selects deep_research and has its             *)
(* modifications applied.                                                  *)
(***************************************************************************)
C33_Requested(reply) ==
    IF "modifications" \in reply.keys THEN reply.modifications ELSE [keys |-> {}]

C33_IsDict(m) == "keys" \in DOMAIN m

C33_Empty(m) == IF C33_IsDict(m) THEN m.keys = {} ELSE m.type = "null"

C33_ApplyRaises(m) ==
    IF C33_IsDict(m)
    THEN "additional_patterns" \in m.keys /\ m.additional_patterns.type # "array"
    ELSE m.type = "number"

C33_AllApplied(e, m) ==
    IF ~C33_IsDict(m) THEN e
    ELSE [e EXCEPT
            !.depth_limit = IF "depth_limit" \in m.keys THEN m.depth_limit ELSE @,
            !.follow_links = IF "follow_links" \in m.keys THEN m.follow_links ELSE @,
            !.extract_patterns = IF "additional_patterns" \in m.keys
                                 THEN @ \o m.additional_patterns.items ELSE @]

C33_Expected(reply) ==
    LET catalog == LoadBaseStrategies
    IN IF reply.kind # "object" THEN catalog["deep_research"]
       ELSE IF ChosenKey(reply) \notin DOMAIN catalog THEN catalog["deep_research"]
       ELSE IF C33_Empty(C33_Requested(reply)) THEN catalog[ChosenKey(reply)]
       ELSE IF C33_ApplyRaises(C33_Requested(reply)) THEN catalog["deep_research"]
       ELSE C33_AllApplied(catalog[ChosenKey(reply)], C33_Requested(reply))

C33_NoPartialStrategy ==
    \A r \in Selected :
        /\ tasks[r].strategy = C33_Expected(oracle_reply)
        /\ strategies = LoadBaseStrategies

C33_Witness ==
    /\ Selected = Tasks
    /\ oracle_reply.kind = "object"
    /\ oracle_reply.keys = {"selected_strategy", "modifications"}
    /\ oracle_reply.selected_strategy = "quick_scan"
    /\ C33_IsDict(oracle_reply.modifications)
    /\ oracle_reply.modifications.keys = {"depth_limit", "additional_patterns"}
    /\ oracle_reply.modifications.depth_limit = 2
    /\ oracle_reply.modifications.additional_patterns = JsonNumber
    /\ \A r \in Tasks : tasks[r].strategy = LoadBaseStrategies["deep_research"]

(***************************************************************************)
(* C31: a run of adaptive_crawl that returns a result appends exactly one  *)
(* learning record to the window, in the step that ends its crawl phase    *)
(* and hands the result back, and no other step of a run, nor a run that   *)
(* ends by raising, changes the window; the window of a crawler that has   *)
(* recorded k runs since construction holds min(k, 100) records.           *)
(***************************************************************************)
C31_RunReturns == pc # "returned" /\ pc' = "returned"

C31_OneAppended ==
    LET old == success_history
        new == success_history'
        dropped == Len(old) + 1 - Len(new)
    IN /\ Len(new) = Min(Len(old) + 1, HistoryLimit)
       /\ new[Len(new)].timestamp = clock'
       /\ new[Len(new)].url_pattern = Netloc(url)
       /\ \A i \in 1..(Len(new) - 1) : new[i] = old[i + dropped]
       /\ \A i \in 1..Len(old) : old[i].timestamp < clock'

C31_AppendStep ==
    /\ C31_RunReturns => (pc = "learn" /\ C31_OneAppended)
    /\ ~C31_RunReturns => success_history' = success_history

C31_WindowLength == Len(success_history) = Min(clock, HistoryLimit)

C31_OneRecordPerReturn == []C31_WindowLength /\ [][C31_AppendStep]_vars

C31_Witness ==
    /\ pc = "returned"
    /\ runs = 1
    /\ clock = HistoryLimit + 1
    /\ Len(success_history) = HistoryLimit
    /\ success_history[HistoryLimit].timestamp = HistoryLimit + 1
    /\ success_history[1].timestamp = 2

(***************************************************************************)
(* C32: no decision of a run depends on the learning window.  On a crawler *)
(* with an empty window and on one with a full window alike, the context   *)
(* is determined by the intent reply and has no previous attempts, the     *)
(* strategy by the strategy reply, the links by the link reply, the        *)
(* fetched urls by the url and these links, and the returned result by the *)
(* outcomes of the fetches.                                                *)
(***************************************************************************)
C32_ContextOf(reply) ==
    IF reply.kind # "object"
    THEN [user_intent |-> "research", domain_knowledge |-> <<>>, previous_attempts |-> <<>>,
          success_patterns |-> <<>>, failure_patterns |-> <<>>]
    ELSE [user_intent |-> IF "primary_intent" \in reply.keys
                          THEN reply.primary_intent ELSE "research",
          domain_knowledge |-> IF "domain_insights" \in reply.keys
                               THEN reply.domain_insights ELSE <<>>,
          previous_attempts |-> <<>>,
          success_patterns |-> IF "recommended_patterns" \in reply.keys
                               THEN reply.recommended_patterns ELSE <<>>,
          failure_patterns |-> IF "avoid_patterns" \in reply.keys
                               THEN reply.avoid_patterns ELSE <<>>]

C34_Failure == handler_result.kind = "json" /\ ~handler_result.success

C34_Answered == handler_result # NoResponse

C34_WriteRaised == doc_log # <<>> /\ doc_log[Len(doc_log)].outcome = "raises"

C34_WriteState ==
    /\ Len(doc_log) <= 1
    /\ (doc_log # <<>> /\ pc # "idle") =>
          /\ pc = "returned"
          /\ PrimarySucceeded
          /\ returned.primary_content = PrimaryContent(url)
          /\ doc_log[1].url = url
          /\ C34_Answered
    /\ (C34_Answered /\ pc = "raised") => C34_Failure
    /\ (C34_Answered /\ C34_WriteRaised) => C34_Failure
    /\ (C34_Answered /\ pc = "returned" /\ ~C34_WriteRaised) => ~C34_Failure
    /\ (C34_Answered /\ pc = "returned" /\ PrimarySucceeded) => doc_log # <<>>

C34_WriteStep ==
    (doc_log' # doc_log /\ doc_log' # <<>>) =>
        /\ pc = "returned" /\ pc' = "returned"
        /\ returned' = returned
        /\ ~C34_Answered

C34_WriteAfterReturn == []C34_WriteState /\ [][C34_WriteStep]_vars

C34_Witness ==
    /\ handler = "mcp"
    /\ pc = "returned"
    /\ Len(fetch_log) = 2
    /\ doc_log = <<[url |-> url, outcome |-> "raises"]>>
    /\ handler_result = JsonResponse(FALSE)

(***************************************************************************)
(* C35: find_deals_for_product and discover_trending_deals send the health *)
(* check before any other request; when it fails, by a status other than   *)
(* 200 or by a request error, they raise without a crawl or discovery      *)
(* request, and when the call has returned or raised its session is        *)
(* closed.                                                                 *)
(***************************************************************************)
C35_Unhealthy(response) ==
    IF response.kind = "error" THEN TRUE ELSE response.status # 200

C35_HealthCheckFirst ==
    entry \in {"product", "trending"} =>
        /\ request_log # <<>>
        /\ request_log[1].kind = "health"
        /\ \A i \in 2..Len(request_log) : request_log[i].kind # "health"
        /\ C35_Unhealthy(request_log[1].response) =>
              (deal_pc = "raised" /\ Len(request_log) = 1)
        /\ deal_pc \in {"done", "raised"} => session = "closed"
        /\ deal_pc \in {"discover", "crawl"} => session = "open"

C35_Witness ==
    /\ entry = "trending"
    /\ deal_pc = "raised"
    /\ request_log = <<Request("health", "", [kind |-> "reply", status |-> 503])>>
    /\ session = "closed"

(***************************************************************************)
(* C36: find_deals_intelligent with a non-empty target_sites sends no      *)
(* discovery request and crawls exactly the listed sites, once each and in *)
(* order; otherwise it sends exactly one discovery request, before any     *)
(* crawl, and crawls the first 5 discovered sites at most, in discovery    *)
(* order.                                                                  *)
(***************************************************************************)
IsCrawl(r) == r.kind = "crawl"

IsDiscover(r) == r.kind = "discover"

CrawlRequests == SelectSeq(request_log, IsCrawl)

DiscoverRequests == SelectSeq(request_log, IsDiscover)

C36_Discovered(response) ==
    IF response.kind = "reply" /\ response.status = 200 /\ response.success
    THEN response.opportunities
    ELSE <<>>

C36_FirstFive(items) == SubSeq(items, 1, Min(5, Len(items)))

\* the crawl requests are of the first items, one request per item
C36_CrawledInOrder(items) ==
    /\ Len(CrawlRequests) <= Len(items)
    /\ \A i \in 1..Len(CrawlRequests) :
          /\ items[i].kind = "dict"
          /\ CrawlRequests[i].site = items[i].url
    /\ deal_pc = "done" => Len(CrawlRequests) = Len(items)

C36_LoopStarted ==
    /\ entry \in {"intelligent", "product"}
    /\ deal_pc \in {"crawl", "done"} \/ (deal_pc = "raised" /\ site_index > 0)

C36_SiteSelection ==
    C36_LoopStarted =>
        IF target_sites.given /\ target_sites.sites # <<>>
        THEN /\ DiscoverRequests = <<>>
             /\ C36_CrawledInOrder(target_sites.sites)
        ELSE /\ Len(DiscoverRequests) = 1
             /\ \A i \in 1..Len(request_log) :
                   request_log[i].kind = "crawl" =>
                       \E j \in 1..(i - 1) : request_log[j].kind = "discover"
             /\ Len(CrawlRequests) <= 5
             /\ C36_CrawledInOrder(C36_FirstFive(C36_Discovered(DiscoverRequests[1].response)))

C36_Witness ==
    /\ entry = "intelligent"
    /\ deal_pc = "done"
    /\ ~target_sites.given
    /\ Len(DiscoverRequests) = 1
    /\ Len(C36_Discovered(DiscoverRequests[1].response)) = 6
    /\ Len(CrawlRequests) = 5
    /\ \A i \in 1..5 : CrawlRequests[i].site = LongSites[i]

(***************************************************************************)
(* C37: in find_deals_intelligent a site whose crawl request fails, by a   *)
(* status other than 200, a request error or a false success flag, adds no *)
(* deal and does not end the loop: the call does not raise because of it,  *)
(* every remaining site is requested and the deals of the other sites are  *)
(* in the result.                                                          *)
(***************************************************************************)
C37_Failed(response) ==
    IF response.kind = "error" THEN TRUE
    ELSE response.status # 200 \/ ~response.success

C37_FailureContained ==
    entry \in {"intelligent", "product"} =>
        /\ Len(CrawlRequests) = Len(crawl_log)
        /\ \A i \in 1..Len(CrawlRequests) :
              crawl_log[i].deals = IF C37_Failed(CrawlRequests[i].response)
                                   THEN <<>>
                                   ELSE CrawlRequests[i].response.deals
        /\ deals = CrawledDeals(crawl_log)
        /\ (deal_pc = "raised" /\ site_index > 0) => site_queue[site_index].kind # "dict"
        /\ deal_pc = "crawl" => site_index = Len(CrawlRequests) + 1
        /\ deal_pc = "done" =>
              /\ Len(CrawlRequests) = Len(site_queue)
              /\ Len(found_deals) = Len(CrawledDeals(crawl_log))

C37_Witness ==
    /\ entry = "intelligent"
    /\ deal_pc = "done"
    /\ target_sites.given
    /\ Len(CrawlRequests) = 2
    /\ CrawlRequests[1].response = RequestError
    /\ CrawlRequests[2].site = "https://outlet.example"
    /\ found_deals = <<[source |-> "https://outlet.example", confidence_score |-> 80]>>

====
